---- MODULE Spec2Model ----
(***************************************************************************)
(* TaskOrchestrator of make-it-heavy-js: decompose -> dispatch (N worker   *)
(* calls, each raced against its own timer) -> aggregate.                  *)
(*                                                                         *)
(* One action is one macrotask of the JavaScript event loop: the callback  *)
(* that runs (a worker call settling, a timer firing, the call of          *)
(* orchestrate) together with every promise continuation it releases,      *)
(* since microtasks run to exhaustion before the next macrotask starts.    *)
(***************************************************************************)
EXTENDS Integers, Sequences, FiniteSets, TLC

VARIABLES
    num_agents,        \* config.orchestrator.parallel_agents
    task_timeout,      \* config.orchestrator.task_timeout (seconds)
    pc,                \* position of the orchestrate call
    userInput,         \* argument of orchestrate
    agent_progress,    \* Map<number, string>: slot id -> status
    agent_results,     \* Map<number, string>: slot id -> response
    questionResponse,  \* settlement the decomposition worker call in flight will deliver
    subtasks,          \* what decompose_task returned
    agentPrompt,       \* slot id -> prompt handed to that slot's worker
    taskPromise,       \* slot id -> promise of run_agent_parallel
    timeoutPromise,    \* slot id -> promise resolved by the slot's timer
    racePromise,       \* slot id -> Promise.race([taskPromise, timeoutPromise])
    agentResults,      \* the sorted outcome sequence handed to aggregate_results
    synthesisPrompt,   \* prompt of the synthesis worker call, if one was made
    synthesisResponse, \* settlement of the synthesis worker call
    result,            \* settlement of the promise orchestrate returned
    workerCalls,       \* number of OpenRouterAgent.run calls made, by purpose
    build,             \* which copy of TaskOrchestrator runs: "root" or "src"
    config,            \* contents of config.yaml
    snapshots,         \* the maps get_progress_status returned to the reader
    clock,             \* time spent before and since the slots were launched (ms)
    http,              \* the request EndpointHandler is handling and its answers
    stale,             \* timers and worker calls left pending by earlier runs
    cli                \* the command-line front end: its tasks and its interval timers

vars == <<num_agents, task_timeout, pc, userInput, agent_progress, agent_results,
          questionResponse, subtasks, agentPrompt, taskPromise, timeoutPromise,
          racePromise, agentResults, synthesisPrompt, synthesisResponse, result,
          workerCalls, build, config, snapshots, clock, http, stale, cli>>

\* What no step of orchestrate touches.
environment == <<build, config, snapshots, clock, http, stale, cli>>

---------------------------------------------------------------------------
(* Bounds of the model *)

MaxAgents == 5      \* configured agent counts explored: 1..MaxAgents
MaxQuestions == 4   \* lengths of the lists the decomposition worker returns: 0..MaxQuestions
MaxTimeout == 1     \* configured task timeouts explored: 1..MaxTimeout

UserInputs == {"alpha", "beta"}
ErrorMessages == {"boom"}
ElapsedTimes == {2}     \* readings of (Date.now() - startTime) / 1000
SynthesisTexts == {"synthesized"}

---------------------------------------------------------------------------
(* Promises *)

Pending == [state |-> "pending"]
Fulfilled(v) == [state |-> "fulfilled", value |-> v]
Rejected(m) == [state |-> "rejected", reason |-> m]

IsPending(p) == p.state = "pending"
IsFulfilled(p) == p.state = "fulfilled"
IsRejected(p) == p.state = "rejected"

\* Variant: the last settlement wins.
PromiseRaceLastWins(race, settled) == settled

\* Promise.race of a taskPromise and a timeoutPromise: it takes the first
\* settlement and ignores every later one.
PromiseRace(race, settled) == IF IsPending(race) THEN settled ELSE race

\* Variant: the join fulfils as soon as one member has fulfilled, with the
\* values of the members fulfilled by then.
PromiseAllFirstFulfilled(promises) ==
    LET fulfilled == SelectSeq(promises, IsFulfilled) IN
    IF Len(fulfilled) > 0
        THEN Fulfilled([k \in 1..Len(fulfilled) |-> fulfilled[k].value])
        ELSE Pending

\* Promise.all: rejects as soon as one member has rejected, fulfils when all
\* members have fulfilled, with the values in the order of the input array.
PromiseAll(promises) ==
    LET n == Len(promises) IN
    IF \E k \in 1..n : IsRejected(promises[k])
        THEN Rejected(promises[CHOOSE k \in 1..n : IsRejected(promises[k])
                                 /\ \A j \in 1..(k-1) : ~IsRejected(promises[j])].reason)
        ELSE IF \A k \in 1..n : IsFulfilled(promises[k])
            THEN Fulfilled([k \in 1..n |-> promises[k].value])
            ELSE Pending

---------------------------------------------------------------------------
(* Map<number, string> *)

EmptyMap == [k \in {} |-> ""]
MapSet(m, k, v) == [x \in (DOMAIN m) \cup {k} |-> IF x = k THEN v ELSE m[x]]

---------------------------------------------------------------------------
(* The worker (OpenRouterAgent.run): an external call that resolves with a *)
(* text or rejects with an error message, after an unbounded delay.        *)

\* Texts the decomposition worker may resolve with: text that is no JSON,
\* JSON that is no array, and JSON arrays of 0..MaxQuestions strings.
Questions(k) == [j \in 1..k |-> "question " \o ToString(j)]
QuestionTexts ==
    {[kind |-> "garbage", items |-> << >>], [kind |-> "object", items |-> << >>]}
    \cup {[kind |-> "array", items |-> Questions(k)] : k \in 0..MaxQuestions}
QuestionSettlements ==
    {Fulfilled(t) : t \in QuestionTexts} \cup {Rejected(m) : m \in ErrorMessages}

\* Texts the worker of slot i may resolve with.
AgentTexts(i) == {"answer of worker " \o ToString(i + 1)}

SynthesisSettlements ==
    {Fulfilled(t) : t \in SynthesisTexts} \cup {Rejected(m) : m \in ErrorMessages}

\* JSON.parse: throws on text that is no JSON, else yields the parsed value.
JSON_parse(text) ==
    IF text.kind = "garbage"
        THEN [threw |-> TRUE, isArray |-> FALSE, value |-> << >>]
        ELSE [threw |-> FALSE, isArray |-> (text.kind = "array"), value |-> text.items]

---------------------------------------------------------------------------
(* decompose_task *)

Min(a, b) == IF a < b THEN a ELSE b

Max(a, b) == IF a > b THEN a ELSE b

\* Array.prototype.slice(0, end): a negative end counts from the end of the array.
Slice(s, end) ==
    IF end >= 0 THEN SubSeq(s, 1, Min(end, Len(s)))
    ELSE SubSeq(s, 1, Max(Len(s) + end, 0))

fallbackQuestions(input) ==
    << "Research comprehensive information about: " \o input,
       "Analyze and provide insights about: " \o input,
       "Find alternative perspectives on: " \o input,
       "Verify and cross-check facts about: " \o input >>

\* The try block of decompose_task: TRUE iff it returns the parsed questions,
\* FALSE iff control reaches the catch block (worker rejection, JSON.parse
\* throwing, or the explicit throw on a non-array or a wrong length).
QuestionsAccepted(settlement, numAgents) ==
    /\ IsFulfilled(settlement)
    /\ LET questions == JSON_parse(settlement.value) IN
        /\ ~questions.threw
        /\ ~(~questions.isArray \/ Len(questions.value) # numAgents)

\* Variant: every parsed array is accepted, whatever its length.
decompose_task_AnyLength(input, numAgents, settlement) ==
    IF IsFulfilled(settlement) /\ JSON_parse(settlement.value).isArray
        THEN JSON_parse(settlement.value).value
        ELSE Slice(fallbackQuestions(input), numAgents)

decompose_task(input, numAgents, settlement) ==
    IF QuestionsAccepted(settlement, numAgents)
        THEN JSON_parse(settlement.value).value
        ELSE Slice(fallbackQuestions(input), numAgents)

\* Variant: the catch block asks the question worker once more.
catchWorkerCalls_Retry(settlement, numAgents) ==
    IF QuestionsAccepted(settlement, numAgents) THEN 0 ELSE 1

\* The worker calls the catch block of decompose_task makes: it builds the
\* fallback list from the user input and calls nothing.
catchWorkerCalls(settlement, numAgents) == 0

---------------------------------------------------------------------------
(* AgentStatus and AgentResult *)

QUEUED == "QUEUED"
INITIALIZING == "INITIALIZING..."
PROCESSING == "PROCESSING..."
COMPLETED == "COMPLETED"
AGGREGATING == "AGGREGATING..."
FAILED(reason) == "FAILED: " \o reason

\* The AgentResult run_agent_parallel returns when the worker resolved.
SuccessResult(agentId, response, executionTime) ==
    [agent_id |-> agentId, status |-> "success", response |-> response,
     execution_time |-> executionTime]

\* Variant: the error response does not carry the failure message.
ErrorResultNoMessage(agentId, message) ==
    [agent_id |-> agentId, status |-> "error", response |-> "Error", execution_time |-> 0]

\* The AgentResult run_agent_parallel returns from its catch block.
ErrorResult(agentId, message) ==
    [agent_id |-> agentId, status |-> "error", response |-> "Error: " \o message,
     execution_time |-> 0]

\* Variant: the timeout outcome reports no execution time.
TimeoutResultNoTime(i, timeout) ==
    [agent_id |-> i, status |-> "timeout",
     response |-> "Agent " \o ToString(i + 1) \o " timed out after "
                  \o ToString(timeout) \o "s",
     execution_time |-> 0]

\* The AgentResult the timer callback of slot i resolves timeoutPromise with.
TimeoutResult(i, timeout) ==
    [agent_id |-> i, status |-> "timeout",
     response |-> "Agent " \o ToString(i + 1) \o " timed out after "
                  \o ToString(timeout) \o "s",
     execution_time |-> timeout]

\* Variant: run_agent_parallel without its catch block.
TaskNoCatch(agentId, message) == Rejected(message)

\* The settlement of taskPromise when the worker call rejected: the catch
\* block of run_agent_parallel turns the rejection into an error AgentResult.
TaskCatch(agentId, message) == Fulfilled(ErrorResult(agentId, message))

---------------------------------------------------------------------------
(* aggregate_results and _aggregate_consensus *)

\* agentResults.sort((a, b) => a.agent_id - b.agent_id): a stable ascending
\* sort. Position(results, j) is where the element at index j ends up: after
\* every element with a smaller agent_id and every earlier element with the
\* same agent_id.
Position(results, j) ==
    1 + Cardinality({m \in 1..Len(results) :
                        \/ results[m].agent_id < results[j].agent_id
                        \/ results[m].agent_id = results[j].agent_id /\ m < j})

\* Variant: the comparator is b.agent_id - a.agent_id.
SortByAgentIdDescending(results) ==
    [k \in 1..Len(results) |->
        results[CHOOSE j \in 1..Len(results) :
                    Position(results, j) = Len(results) + 1 - k]]

SortByAgentId(results) ==
    [k \in 1..Len(results) |->
        results[CHOOSE j \in 1..Len(results) : Position(results, j) = k]]

\* Variant: the filter drops the timeout outcomes only.
IsNotTimeout(r) == r.status # "timeout"

IsSuccess(r) == r.status = "success"
successfulResults(results) == SelectSeq(results, IsSuccess)

\* Variant: the responses are read back from the agent_results field.
Responses_FromResultsMap(results) ==
    LET ok == successfulResults(results) IN
    [k \in 1..Len(ok) |->
        IF ok[k].agent_id \in DOMAIN agent_results
            THEN agent_results[ok[k].agent_id] ELSE "undefined"]

\* successfulResults.map(r => r.response)
Responses(results) ==
    LET ok == successfulResults(results) IN [k \in 1..Len(ok) |-> ok[k].response]

AllFailedMessage == "All agents failed to provide results. Please try again."

\* The two copies of _aggregate_consensus differ in their separators only:
\* the root copy ends each block of the synthesis input with "\n\n" and joins
\* the fallback blocks with '\n\n', the src copy uses a single "\n" for both.
blockTerminator == IF build = "root" THEN "\n\n" ELSE "\n"
joinSeparator == IF build = "root" THEN "\n\n" ELSE "\n"

\* responses.forEach((response, i) => agentResponsesText += ...)
RECURSIVE agentResponsesText(_, _)
agentResponsesText(responses, i) ==
    IF i > Len(responses) THEN ""
    ELSE "=== AGENT " \o ToString(i) \o " RESPONSE ===\n" \o responses[i]
         \o blockTerminator \o agentResponsesText(responses, i + 1)

\* synthesisPromptTemplate.replace('{num_responses}', ..).replace('{agent_responses}', ..)
SynthesisPrompt(responses) ==
    [num_responses |-> Len(responses),
     agent_responses |-> agentResponsesText(responses, 1)]

\* responses.map((resp, i) => `=== Agent ${i + 1} Response ===\n${resp}`).join(..)
RECURSIVE ConcatenatedResponses(_, _)
ConcatenatedResponses(responses, i) ==
    IF i > Len(responses) THEN ""
    ELSE "=== Agent " \o ToString(i) \o " Response ===\n" \o responses[i]
         \o (IF i < Len(responses) THEN joinSeparator ELSE "")
         \o ConcatenatedResponses(responses, i + 1)

NoPrompt == [num_responses |-> 0, agent_responses |-> ""]

\* Variant: a single response goes to synthesis like any other number.
aggregate_results_NoIdentity(results) ==
    LET responses == Responses(results) IN
    IF Len(successfulResults(results)) = 0
        THEN [returned |-> TRUE, value |-> AllFailedMessage, prompt |-> NoPrompt]
    ELSE [returned |-> FALSE, value |-> "", prompt |-> SynthesisPrompt(responses)]

\* Variant: aggregate_results without the check for zero successful results.
aggregate_results_NoEmptyCheck(results) ==
    LET responses == Responses(results) IN
    IF Len(responses) = 1
        THEN [returned |-> TRUE, value |-> responses[1], prompt |-> NoPrompt]
    ELSE [returned |-> FALSE, value |-> "", prompt |-> SynthesisPrompt(responses)]

\* Variant: aggregate_results does not wait for the synthesis worker call and
\* returns the concatenated responses.
aggregate_results_NoWait(results) ==
    LET responses == Responses(results) IN
    IF Len(successfulResults(results)) = 0
        THEN [returned |-> TRUE, value |-> AllFailedMessage, prompt |-> NoPrompt]
    ELSE IF Len(responses) = 1
        THEN [returned |-> TRUE, value |-> responses[1], prompt |-> NoPrompt]
    ELSE [returned |-> TRUE, value |-> ConcatenatedResponses(responses, 1),
          prompt |-> SynthesisPrompt(responses)]

\* aggregate_results up to its first suspension: either it returns at once
\* (no success: the fixed message; one success: that response), or it starts
\* the synthesis worker call and waits for it.
aggregate_results(results) ==
    LET responses == Responses(results) IN
    IF Len(successfulResults(results)) = 0
        THEN [returned |-> TRUE, value |-> AllFailedMessage, prompt |-> NoPrompt]
    ELSE IF Len(responses) = 1
        THEN [returned |-> TRUE, value |-> responses[1], prompt |-> NoPrompt]
    ELSE [returned |-> FALSE, value |-> "", prompt |-> SynthesisPrompt(responses)]

\* Variant: the concatenation is returned whatever the synthesis call delivered.
aggregate_consensus_settled_Concatenates(responses, settlement) ==
    ConcatenatedResponses(responses, 1)

\* The settlement of _aggregate_consensus once the synthesis call settled.
aggregate_consensus_settled(responses, settlement) ==
    IF IsFulfilled(settlement)
        THEN settlement.value
        ELSE ConcatenatedResponses(responses, 1)

---------------------------------------------------------------------------
(* The state machine *)

Slots == 0..(num_agents - 1)
Launched == DOMAIN racePromise      \* the slots subtasks.map launched a race for

\* config.yaml with both sections present.
ConfigFile(agents, timeout) ==
    [orchestrator |-> TRUE, openrouter |-> TRUE,
     parallel_agents |-> agents, task_timeout |-> timeout]

NoCalls == [question |-> 0, agent |-> 0, synthesis |-> 0]

\* No time has passed, no request has arrived, no earlier run left anything.
NoTime == [before |-> 0, since |-> 0]
NoRequest == [phase |-> "listening", request |-> << >>, responses |-> << >>]
NoStale == [run |-> 1, timers |-> {}, workers |-> {}]
\* The front end has read no line: no task, no interval timer, no handle.
NoCli == [lines |-> 0, exited |-> FALSE, running |-> FALSE, progressInterval |-> 0,
          handles |-> 0, active |-> {}, own |-> FALSE, ownRun |-> 0, input |-> "",
          others |-> 0]
Quiet ==
    /\ clock = NoTime
    /\ http = NoRequest
    /\ stale = NoStale
    /\ cli = NoCli

\* The state after construction from a config.yaml with 1..MaxAgents agents.
\* Both copies of TaskOrchestrator take the same steps; this specification
\* follows the root copy, AggregateSpec below follows both.
Init ==
    /\ num_agents \in 1..MaxAgents
    /\ task_timeout \in 1..MaxTimeout
    /\ config = ConfigFile(num_agents, task_timeout)
    /\ build = "root"
    /\ snapshots = << >>
    /\ Quiet
    /\ workerCalls = NoCalls
    /\ pc = "idle"
    /\ userInput = ""
    /\ agent_progress = EmptyMap
    /\ agent_results = EmptyMap
    /\ questionResponse = Pending
    /\ subtasks = << >>
    /\ agentPrompt = << >>
    /\ taskPromise = << >>
    /\ timeoutPromise = << >>
    /\ racePromise = << >>
    /\ agentResults = << >>
    /\ synthesisPrompt = NoPrompt
    /\ synthesisResponse = Pending
    /\ result = Pending

\* Variant: the update builds a new map that holds the written entry only.
update_agent_progress_Replace(m, agentId, status) == MapSet(EmptyMap, agentId, status)

\* update_agent_progress(agentId, status) on the map m.
update_agent_progress(m, agentId, status) == MapSet(m, agentId, status)

\* orchestrate(input) up to its first suspension: both maps are cleared, the
\* sentinel is set and decompose_task starts the decomposition worker call.
Orchestrate(input) ==
    /\ pc = "idle"
    /\ userInput' = input
    /\ agent_progress' = update_agent_progress(EmptyMap, -1, INITIALIZING)
    /\ agent_results' = EmptyMap
    /\ pc' = "decomposing"
    /\ workerCalls' = [workerCalls EXCEPT !.question = @ + 1]
    /\ UNCHANGED <<environment, num_agents, task_timeout, questionResponse, subtasks, agentPrompt,
                   taskPromise, timeoutPromise, racePromise, agentResults,
                   synthesisPrompt, synthesisResponse, result>>

\* Variant: the QUEUED loop starts at the sentinel, for (i = -1; ...).
ProgressAtDispatchFromSentinel(m, launched) ==
    [k \in (DOMAIN m) \cup Slots \cup launched \cup {-1} |->
        IF k \in launched THEN PROCESSING
        ELSE IF k \in Slots \cup {-1} THEN QUEUED
        ELSE m[k]]

\* for (i = 0; i < num_agents; i++) agent_progress.set(i, "QUEUED"), followed by
\* the synchronous head of run_agent_parallel(i, ..) for every launched slot.
ProgressAtDispatch(m, launched) ==
    [k \in (DOMAIN m) \cup Slots \cup launched |->
        IF k \in launched THEN PROCESSING
        ELSE IF k \in Slots THEN QUEUED
        ELSE m[k]]

\* What orchestrate does once a race has settled: while it waits on
\* Promise.all it resumes when the last race fulfils (sort, sentinel,
\* aggregate_results) or rejects as soon as a race rejects; a settlement that
\* arrives after the join was released resumes nothing. position is where
\* orchestrate stands when the races are looked at, calls the worker calls
\* made so far.
Resume(position, progress, races, calls) ==
    \E all \in {PromiseAll([k \in 1..Cardinality(DOMAIN races) |-> races[k - 1]])} :
    IF position = "dispatching" /\ IsRejected(all) THEN
        /\ pc' = "rejected"
        /\ result' = Rejected(all.reason)
        /\ agent_progress' = progress
        /\ workerCalls' = calls
        /\ UNCHANGED <<agentResults, synthesisPrompt>>
    ELSE IF position = "dispatching" /\ IsFulfilled(all) THEN
        \E sorted \in {SortByAgentId(all.value)} :
        \E aggregated \in {aggregate_results(sorted)} :
        /\ agentResults' = sorted
        /\ agent_progress' = update_agent_progress(progress, -1, AGGREGATING)
        /\ synthesisPrompt' = aggregated.prompt
        /\ IF aggregated.returned
              THEN /\ pc' = "done"
                   /\ result' = Fulfilled(aggregated.value)
                   /\ workerCalls' = calls
              ELSE /\ pc' = "aggregating"
                   /\ result' = result
                   /\ workerCalls' = [calls EXCEPT !.synthesis = @ + 1]
    ELSE
        /\ pc' = position
        /\ agent_progress' = progress
        /\ workerCalls' = calls
        /\ UNCHANGED <<result, agentResults, synthesisPrompt>>

\* The decomposition worker call settles: decompose_task returns the subtasks,
\* orchestrate queues every slot and subtasks.map launches, for every subtask,
\* run_agent_parallel (which starts the slot's worker) and the slot's timer.
\* Promise.all of no race at all fulfils at once.
QuestionSettles(settlement) ==
    /\ pc = "decomposing"
    /\ \E tasks \in {decompose_task(userInput, num_agents, settlement)} :
       \E launched \in {0..(Len(tasks) - 1)} :
       \E races \in {[i \in launched |-> Pending]} :
        /\ subtasks' = tasks
        /\ agentPrompt' = [i \in launched |-> tasks[i + 1]]
        /\ taskPromise' = [i \in launched |-> Pending]
        /\ timeoutPromise' = [i \in launched |-> Pending]
        /\ racePromise' = races
        /\ Resume("dispatching", ProgressAtDispatch(agent_progress, launched), races,
                  [workerCalls EXCEPT !.question = @ + catchWorkerCalls(settlement, num_agents),
                                      !.agent = @ + Len(tasks)])
    /\ UNCHANGED <<environment, num_agents, task_timeout, userInput, agent_results,
                   questionResponse, synthesisResponse>>

\* The worker call of slot i resolves: run_agent_parallel records COMPLETED and
\* the response and returns a success AgentResult.
WorkerResolves(i, response, executionTime) ==
    /\ i \in DOMAIN taskPromise
    /\ IsPending(taskPromise[i])
    /\ \E settled \in {Fulfilled(SuccessResult(i, response, executionTime))} :
       \E races \in {[racePromise EXCEPT ![i] = PromiseRace(@, settled)]} :
        /\ taskPromise' = [taskPromise EXCEPT ![i] = settled]
        /\ racePromise' = races
        /\ agent_results' = MapSet(agent_results, i, response)
        /\ Resume(pc, update_agent_progress(agent_progress, i, COMPLETED), races, workerCalls)
    /\ UNCHANGED <<environment, num_agents, task_timeout, userInput, questionResponse, subtasks,
                   agentPrompt, timeoutPromise, synthesisResponse>>

\* The worker call of slot i rejects: the catch block of run_agent_parallel
\* records FAILED: <message> and returns an error AgentResult.
WorkerRejects(i, message) ==
    /\ i \in DOMAIN taskPromise
    /\ IsPending(taskPromise[i])
    /\ \E settled \in {TaskCatch(i, message)} :
       \E races \in {[racePromise EXCEPT ![i] = PromiseRace(@, settled)]} :
        /\ taskPromise' = [taskPromise EXCEPT ![i] = settled]
        /\ racePromise' = races
        /\ Resume(pc, update_agent_progress(agent_progress, i, FAILED(message)), races,
                  workerCalls)
    /\ UNCHANGED <<environment, num_agents, task_timeout, userInput, agent_results,
                   questionResponse, subtasks, agentPrompt, timeoutPromise,
                   synthesisResponse>>

\* The timer of slot i fires: its callback records FAILED: Timeout and
\* resolves timeoutPromise. The timer is never cleared, so it fires whether
\* or not the worker call has settled and whether or not orchestrate returned.
TimerFires(i) ==
    /\ i \in DOMAIN timeoutPromise
    /\ IsPending(timeoutPromise[i])
    /\ \E settled \in {Fulfilled(TimeoutResult(i, task_timeout))} :
       \E races \in {[racePromise EXCEPT ![i] = PromiseRace(@, settled)]} :
        /\ timeoutPromise' = [timeoutPromise EXCEPT ![i] = settled]
        /\ racePromise' = races
        /\ Resume(pc, update_agent_progress(agent_progress, i, FAILED("Timeout")), races,
                  workerCalls)
    /\ UNCHANGED <<environment, num_agents, task_timeout, userInput, agent_results,
                   questionResponse, subtasks, agentPrompt, taskPromise,
                   synthesisResponse>>

\* The synthesis worker call settles: _aggregate_consensus returns its text,
\* or the concatenated responses when it rejected, and orchestrate returns.
SynthesisSettles(settlement) ==
    /\ pc = "aggregating"
    /\ synthesisResponse' = settlement
    /\ result' = Fulfilled(aggregate_consensus_settled(Responses(agentResults), settlement))
    /\ pc' = "done"
    /\ UNCHANGED <<environment, num_agents, task_timeout, userInput, agent_progress, agent_results,
                   questionResponse, subtasks, agentPrompt, taskPromise,
                   timeoutPromise, racePromise, agentResults, synthesisPrompt,
                   workerCalls>>

Next ==
    \/ \E input \in UserInputs : Orchestrate(input)
    \/ \E settlement \in QuestionSettlements : QuestionSettles(settlement)
    \/ \E i \in 0..(MaxAgents - 1) : \E response \in AgentTexts(i) :
          \E executionTime \in ElapsedTimes : WorkerResolves(i, response, executionTime)
    \/ \E i \in 0..(MaxAgents - 1) : \E message \in ErrorMessages : WorkerRejects(i, message)
    \/ \E i \in 0..(MaxAgents - 1) : TimerFires(i)
    \/ \E settlement \in SynthesisSettlements : SynthesisSettles(settlement)

Spec == Init /\ [][Next]_vars

\* Fairness: a timer that was armed fires (the event loop runs every timer
\* callback that is due), and the decomposition and synthesis worker calls
\* settle. Nothing is assumed of the slot worker calls: each may never settle.
Fairness ==
    /\ \A i \in 0..(MaxAgents - 1) : WF_vars(TimerFires(i))
    /\ WF_vars(\E settlement \in QuestionSettlements : QuestionSettles(settlement))
    /\ WF_vars(\E settlement \in SynthesisSettlements : SynthesisSettles(settlement))
    /\ WF_vars(\E input \in UserInputs : Orchestrate(input))

FairSpec == Spec /\ Fairness

---------------------------------------------------------------------------
(* decompose_task as a function of its inputs: orchestrate was called, the  *)
(* decomposition worker call is in flight and questionResponse is what it   *)
(* will deliver.                                                            *)

DecomposeInit ==
    /\ num_agents \in 1..MaxAgents
    /\ task_timeout \in 1..MaxTimeout
    /\ config = ConfigFile(num_agents, task_timeout)
    /\ build = "root"
    /\ snapshots = << >>
    /\ Quiet
    /\ workerCalls = [NoCalls EXCEPT !.question = 1]
    /\ pc = "decomposing"
    /\ userInput \in UserInputs
    /\ agent_progress = update_agent_progress(EmptyMap, -1, INITIALIZING)
    /\ agent_results = EmptyMap
    /\ questionResponse \in QuestionSettlements
    /\ subtasks = << >>
    /\ agentPrompt = << >>
    /\ taskPromise = << >>
    /\ timeoutPromise = << >>
    /\ racePromise = << >>
    /\ agentResults = << >>
    /\ synthesisPrompt = NoPrompt
    /\ synthesisResponse = Pending
    /\ result = Pending

DecomposeNext == QuestionSettles(questionResponse)

DecomposeSpec == DecomposeInit /\ [][DecomposeNext]_vars

---------------------------------------------------------------------------
(* aggregate_results as a function of the outcome sequence, in both copies  *)
(* of TaskOrchestrator: every race but the last has settled, as a success,  *)
(* an error or a timeout; the settlement of the last race releases the join *)
(* and hands the outcomes to aggregate_results.                             *)

Builds == {"root", "src"}
OutcomeKinds == {"success", "error", "timeout"}

\* The promises and the status of a slot whose race has settled with an
\* outcome of the given kind, before any later settlement of the slot.
SettledTask(i, kind) ==
    IF kind = "success"
        THEN Fulfilled(SuccessResult(i, CHOOSE t \in AgentTexts(i) : TRUE,
                                     CHOOSE e \in ElapsedTimes : TRUE))
    ELSE IF kind = "error" THEN TaskCatch(i, CHOOSE m \in ErrorMessages : TRUE)
    ELSE Pending
SettledTimer(i, kind, timeout) ==
    IF kind = "timeout" THEN Fulfilled(TimeoutResult(i, timeout)) ELSE Pending
SettledStatus(kind) ==
    IF kind = "success" THEN COMPLETED
    ELSE IF kind = "error" THEN FAILED(CHOOSE m \in ErrorMessages : TRUE)
    ELSE FAILED("Timeout")

AggregateInit ==
    /\ build \in Builds
    /\ num_agents \in 1..MaxAgents
    /\ task_timeout \in 1..MaxTimeout
    /\ config = ConfigFile(num_agents, task_timeout)
    /\ snapshots = << >>
    /\ Quiet
    /\ pc = "dispatching"
    /\ userInput \in UserInputs
    /\ questionResponse = Pending
    /\ subtasks = Slice(fallbackQuestions(userInput), num_agents)
    /\ workerCalls = [question |-> 1, agent |-> Len(subtasks), synthesis |-> 0]
    /\ \E kinds \in [0..(Len(subtasks) - 2) -> OutcomeKinds] :
        /\ agentPrompt = [i \in 0..(Len(subtasks) - 1) |-> subtasks[i + 1]]
        /\ taskPromise = [i \in 0..(Len(subtasks) - 1) |->
                IF i \in DOMAIN kinds THEN SettledTask(i, kinds[i]) ELSE Pending]
        /\ timeoutPromise = [i \in 0..(Len(subtasks) - 1) |->
                IF i \in DOMAIN kinds THEN SettledTimer(i, kinds[i], task_timeout)
                ELSE Pending]
        /\ racePromise = [i \in 0..(Len(subtasks) - 1) |->
                IF i \in DOMAIN kinds
                    THEN (IF kinds[i] = "timeout"
                            THEN SettledTimer(i, kinds[i], task_timeout)
                            ELSE SettledTask(i, kinds[i]))
                    ELSE Pending]
        /\ agent_progress = [k \in {-1} \cup Slots |->
                IF k = -1 THEN INITIALIZING
                ELSE IF k \in DOMAIN kinds THEN SettledStatus(kinds[k])
                ELSE IF k < Len(subtasks) THEN PROCESSING
                ELSE QUEUED]
        /\ agent_results = [k \in {i \in DOMAIN kinds : kinds[i] = "success"} |->
                taskPromise[k].value.response]
    /\ agentResults = << >>
    /\ synthesisPrompt = NoPrompt
    /\ synthesisResponse = Pending
    /\ result = Pending

\* The settlements of the last slot, and that of the synthesis call.
AggregateNext ==
    \/ \E i \in {Len(subtasks) - 1} : \E response \in AgentTexts(i) :
          \E executionTime \in ElapsedTimes : WorkerResolves(i, response, executionTime)
    \/ \E i \in {Len(subtasks) - 1} : \E message \in ErrorMessages : WorkerRejects(i, message)
    \/ \E i \in {Len(subtasks) - 1} : TimerFires(i)
    \/ \E settlement \in SynthesisSettlements : SynthesisSettles(settlement)

AggregateSpec == AggregateInit /\ [][AggregateNext]_vars

---------------------------------------------------------------------------
(* get_progress_status and its reader: while orchestrate runs, a reader     *)
(* (the progress display of the front ends) takes snapshots of the progress *)
(* map, keeps up to MaxSnapshots of them and may write to the maps it got.  *)

MaxSnapshots == 2       \* snapshots the reader holds at a time
SnapshotAgentCounts == {1}
TamperedKeys == {0}
TamperedStatus == "TAMPERED"

\* A Map object the reader holds: either an object of its own with its own
\* entries, or the very object this.agent_progress refers to.
\* Variant: get_progress_status returns this.agent_progress itself.
get_progress_status_Alias(progress) == [alias |-> TRUE, entries |-> progress]

\* return new Map(this.agent_progress): a new object with the same entries.
get_progress_status(progress) == [alias |-> FALSE, entries |-> progress]

\* The entries the reader sees through a map it holds.
Entries(map) == IF map.alias THEN agent_progress ELSE map.entries

\* Map.prototype.delete and Map.prototype.set on the entries m.
MapDelete(m, k) == [x \in (DOMAIN m) \ {k} |-> m[x]]
Tampered(m, k, remove) == IF remove THEN MapDelete(m, k) ELSE MapSet(m, k, TamperedStatus)

\* What orchestrate had done when a snapshot was taken: every write to the
\* progress map comes with a change of one of these.
Stamp == <<pc, taskPromise, timeoutPromise>>

\* The reader calls get_progress_status and keeps the map; returned and at
\* record the entries it had when it was returned and the time of the call.
GetProgressStatus ==
    /\ Len(snapshots) < MaxSnapshots
    /\ snapshots' = Append(snapshots, [map |-> get_progress_status(agent_progress),
                                       returned |-> agent_progress,
                                       at |-> Stamp])
    /\ UNCHANGED <<build, config, clock, http, stale, cli, num_agents, task_timeout, pc, userInput, agent_progress,
                   agent_results, questionResponse, subtasks, agentPrompt, taskPromise,
                   timeoutPromise, racePromise, agentResults, synthesisPrompt,
                   synthesisResponse, result, workerCalls>>

\* The reader sets or deletes an entry of the k-th map it holds.
MutateSnapshot(k, key, remove) ==
    /\ k \in 1..Len(snapshots)
    /\ IF snapshots[k].map.alias
          THEN /\ agent_progress' = Tampered(agent_progress, key, remove)
               /\ UNCHANGED snapshots
          ELSE /\ snapshots' = [snapshots EXCEPT ![k].map.entries = Tampered(@, key, remove)]
               /\ UNCHANGED agent_progress
    /\ UNCHANGED <<build, config, clock, http, stale, cli, num_agents, task_timeout, pc, userInput,
                   agent_results, questionResponse, subtasks, agentPrompt, taskPromise,
                   timeoutPromise, racePromise, agentResults, synthesisPrompt,
                   synthesisResponse, result, workerCalls>>

\* The reader drops the maps it holds.
ReleaseSnapshots ==
    /\ Len(snapshots) > 0
    /\ snapshots' = << >>
    /\ UNCHANGED <<build, config, clock, http, stale, cli, num_agents, task_timeout, pc, userInput, agent_progress,
                   agent_results, questionResponse, subtasks, agentPrompt, taskPromise,
                   timeoutPromise, racePromise, agentResults, synthesisPrompt,
                   synthesisResponse, result, workerCalls>>

SnapshotInit == Init /\ num_agents \in SnapshotAgentCounts

\* The steps of a run with one agent (it never makes a synthesis call, C11),
\* and those of the reader.
SnapshotNext ==
    \/ \E input \in UserInputs : Orchestrate(input)
    \/ \E settlement \in QuestionSettlements : QuestionSettles(settlement)
    \/ \E i \in 0..(MaxAgents - 1) : \E response \in AgentTexts(i) :
          \E executionTime \in ElapsedTimes : WorkerResolves(i, response, executionTime)
    \/ \E i \in 0..(MaxAgents - 1) : \E message \in ErrorMessages : WorkerRejects(i, message)
    \/ \E i \in 0..(MaxAgents - 1) : TimerFires(i)
    \/ GetProgressStatus
    \/ \E k \in 1..MaxSnapshots : \E key \in TamperedKeys : \E remove \in BOOLEAN :
          MutateSnapshot(k, key, remove)
    \/ ReleaseSnapshots

SnapshotSpec == SnapshotInit /\ [][SnapshotNext]_vars

---------------------------------------------------------------------------
(* Start-up: the front end loads config.yaml and constructs the             *)
(* orchestrator; then runs are made as above.                               *)

InvalidAgentCounts == {-1, 0}
ConfigAgentCounts == InvalidAgentCounts \cup {1}

\* The contents config.yaml may have: each of the two sections present or
\* missing, and the values of parallel_agents and task_timeout.
ConfigFiles ==
    [orchestrator : BOOLEAN, openrouter : BOOLEAN,
     parallel_agents : ConfigAgentCounts, task_timeout : 1..MaxTimeout]

\* loadConfig: throws iff one of the two sections is missing. The root front
\* end fails on the same files, with a TypeError when it reads
\* config.orchestrator.parallel_agents or config.openrouter.model.
loadConfig(file) ==
    [threw |-> (~file.orchestrator \/ ~file.openrouter), config |-> file]

\* Before construction the fields num_agents and task_timeout are unassigned.
Unassigned == 0

ConfigInit ==
    /\ config \in ConfigFiles
    /\ build \in Builds
    /\ num_agents = Unassigned
    /\ task_timeout = Unassigned
    /\ snapshots = << >>
    /\ Quiet
    /\ workerCalls = NoCalls
    /\ pc = "starting"
    /\ userInput = ""
    /\ agent_progress = EmptyMap
    /\ agent_results = EmptyMap
    /\ questionResponse = Pending
    /\ subtasks = << >>
    /\ agentPrompt = << >>
    /\ taskPromise = << >>
    /\ timeoutPromise = << >>
    /\ racePromise = << >>
    /\ agentResults = << >>
    /\ synthesisPrompt = NoPrompt
    /\ synthesisResponse = Pending
    /\ result = Pending

\* main(): loadConfig, then new TaskOrchestrator(config), whose constructor
\* copies parallel_agents and task_timeout as they are; a thrown error ends
\* the process.
Startup ==
    /\ pc = "starting"
    /\ \E loaded \in {loadConfig(config)} :
        IF loaded.threw
            THEN /\ pc' = "exited"
                 /\ UNCHANGED <<num_agents, task_timeout>>
            ELSE /\ pc' = "idle"
                 /\ num_agents' = loaded.config.parallel_agents
                 /\ task_timeout' = loaded.config.task_timeout
    /\ UNCHANGED <<environment, userInput, agent_progress, agent_results,
                   questionResponse, subtasks, agentPrompt, taskPromise, timeoutPromise,
                   racePromise, agentResults, synthesisPrompt, synthesisResponse, result,
                   workerCalls>>

ConfigNext == Startup \/ Next

ConfigSpec == ConfigInit /\ [][ConfigNext]_vars

---------------------------------------------------------------------------
(* Vocabulary of the properties *)

\* The outcome sequence has been handed to aggregate_results.
Aggregated == pc \in {"aggregating", "done"}
\* orchestrate has returned its FinalResult.
Returned == pc = "done"

Range(seq) == {seq[k] : k \in 1..Len(seq)}

HasOutcome(i) == i \in DOMAIN racePromise /\ IsFulfilled(racePromise[i])
OutcomeStatus(i) == racePromise[i].value.status

WorkerSettled(i) == i \in DOMAIN taskPromise /\ ~IsPending(taskPromise[i])
WorkerRunning(i) == i \in DOMAIN taskPromise /\ IsPending(taskPromise[i])
TimerFired(i) == i \in DOMAIN timeoutPromise /\ IsFulfilled(timeoutPromise[i])

IsTerminal(status) ==
    \/ status = "COMPLETED"
    \/ status = "FAILED: Timeout"
    \/ \E m \in ErrorMessages : status = "FAILED: " \o m

---------------------------------------------------------------------------
(* C1 *)

\* C1: whenever the outcome sequence has been handed to the aggregator, it
\* holds exactly one AgentOutcome for every slot id in 0..N-1: N outcomes, and
\* for every slot exactly one position carrying its id.
C1_OneOutcomePerSlot ==
    Aggregated =>
        /\ Len(agentResults) = num_agents
        /\ \A slot \in Slots :
              Cardinality({k \in 1..Len(agentResults) : agentResults[k].agent_id = slot}) = 1

---------------------------------------------------------------------------
(* C2 *)

\* C2: while orchestrate is running, a slot whose progress status is terminal
\* (COMPLETED, FAILED: <message>, FAILED: Timeout) keeps that status in every
\* step: the branch that lost the race writes nothing.
C2_FirstSettlementDurable ==
    [][\A i \in 0..(MaxAgents - 1) :
          (/\ pc \in {"dispatching", "aggregating"}
           /\ i \in DOMAIN agent_progress
           /\ IsTerminal(agent_progress[i]))
          => agent_progress'[i] = agent_progress[i]]_vars

---------------------------------------------------------------------------
(* C3 *)

\* The texts the slot-i worker has delivered so far.
Delivered(i) ==
    IF WorkerSettled(i) /\ taskPromise[i].value.status = "success"
        THEN {taskPromise[i].value.response} ELSE {}

\* What the FinalResult may be made of, given the responses handed on.
ComposedOf(responses) ==
    {AllFailedMessage} \cup Range(responses) \cup SynthesisTexts
    \cup {ConcatenatedResponses(responses, 1)}

\* C3: in every step that ends with slot i's timer fired and starts with slot
\* i's worker call unsettled (the timer was first), and in every step taken
\* once slot i's recorded outcome is the timeout outcome, the outcome of slot i
\* afterwards is the timeout outcome; and once the outcome sequence exists it
\* holds that outcome for slot i, and nothing the slot-i worker delivered is
\* among the responses the synthesis prompt and the FinalResult are built of.
C3_TimeoutOutcomeStays ==
    [][\A i \in 0..(MaxAgents - 1) :
          ((\/ WorkerRunning(i) /\ TimerFired(i)'
            \/ HasOutcome(i) /\ OutcomeStatus(i) = "timeout")
           => /\ HasOutcome(i)'
              /\ OutcomeStatus(i)' = "timeout"
              /\ (HasOutcome(i) => racePromise'[i] = racePromise[i])
              /\ Aggregated' =>
                    /\ agentResults'[i + 1].agent_id = i
                    /\ agentResults'[i + 1].status = "timeout"
                    /\ Delivered(i)' \cap Range(Responses(agentResults))' = {}
                    /\ synthesisPrompt' \in {NoPrompt, SynthesisPrompt(Responses(agentResults))'}
                    /\ Returned' => result'.value \in ComposedOf(Responses(agentResults))')]_vars

\* C3 witness: orchestrate returned, slot i's outcome is the timeout outcome,
\* and the abandoned worker of slot i has delivered a response since.
C3_Witness ==
    /\ Returned
    /\ \E i \in Launched :
          /\ OutcomeStatus(i) = "timeout"
          /\ Delivered(i) # {}
          /\ agent_results[i] \in Delivered(i)

---------------------------------------------------------------------------
(* C4 *)

\* C4: a slot whose timer has fired while its worker call is still unsettled
\* has the outcome {status: timeout, execution_time: task_timeout, response:
\* 'Agent <i+1> timed out after <task_timeout>s'}, a text no worker produced.
C4_TimeoutOutcomeIsSynthetic ==
    \A i \in 0..(MaxAgents - 1) :
        (TimerFired(i) /\ WorkerRunning(i)) =>
            /\ HasOutcome(i)
            /\ racePromise[i].value.agent_id = i
            /\ racePromise[i].value.status = "timeout"
            /\ racePromise[i].value.execution_time = task_timeout
            /\ racePromise[i].value.response =
                  "Agent " \o ToString(i + 1) \o " timed out after "
                  \o ToString(task_timeout) \o "s"
            /\ \A j \in 0..(MaxAgents - 1) : racePromise[i].value.response \notin AgentTexts(j)

\* C4 witness: orchestrate returned although the worker call of a slot never
\* settled; that slot's timer fired.
C4_Witness ==
    /\ Returned
    /\ \E i \in Launched : TimerFired(i) /\ WorkerRunning(i)

---------------------------------------------------------------------------
(* C5 *)

\* C5: under fairness of the timers (and of the decomposition and synthesis
\* calls), eventually orchestrate has returned and every slot in 0..N-1 has an
\* outcome, whichever slot worker calls never settle.
C5_RunCompletes ==
    <>(Returned /\ IsFulfilled(result) /\ \A i \in Slots : HasOutcome(i))

\* The part of C5 that does not depend on the number of launched races:
\* orchestrate eventually returns and every launched race eventually settles.
RunTerminates ==
    <>(Returned /\ IsFulfilled(result) /\ \A i \in Launched : HasOutcome(i))

---------------------------------------------------------------------------
(* C6 *)

\* C6: the promise orchestrate returned is never rejected, and once
\* orchestrate has returned the promise is fulfilled with a result.
C6_OrchestrateNeverRejects ==
    /\ pc # "rejected"
    /\ ~IsRejected(result)
    /\ Returned => IsFulfilled(result)

\* C6 witness: orchestrate returned a result in a run with a decomposition
\* shortfall, a slot worker failure, a slot timeout and a synthesis failure.
C6_Witness ==
    /\ Returned /\ IsFulfilled(result)
    /\ subtasks = Slice(fallbackQuestions(userInput), num_agents)
    /\ \E i \in Launched : OutcomeStatus(i) = "error"
    /\ \E i \in Launched : OutcomeStatus(i) = "timeout"
    /\ IsRejected(synthesisResponse)

---------------------------------------------------------------------------
(* C7 *)

\* C7: the outcome sequence of the dispatch phase has one outcome per subtask,
\* ascending by slot id; the outcome at position k carries slot id k-1 and is
\* the settlement of the race whose worker was handed subtasks[k], a success
\* outcome carrying a text of that slot's worker.
C7_DispatchIndexAligned ==
    Aggregated =>
        /\ Len(agentResults) = Len(subtasks)
        /\ \A k \in 1..Len(agentResults) :
              /\ agentResults[k].agent_id = k - 1
              /\ k > 1 => agentResults[k - 1].agent_id < agentResults[k].agent_id
              /\ agentPrompt[k - 1] = subtasks[k]
              /\ agentResults[k] = racePromise[k - 1].value
              /\ agentResults[k].status = "success"
                    => agentResults[k].response \in AgentTexts(k - 1)

\* C7 witness: orchestrate returned after a dispatch in which a slot failed, a
\* later slot timed out and a still later slot succeeded.
C7_Witness ==
    /\ Returned
    /\ \E i, j, k \in Launched :
          /\ i < j /\ j < k
          /\ agentResults[i + 1].status = "error"
          /\ agentResults[j + 1].status = "timeout"
          /\ agentResults[k + 1].status = "success"

---------------------------------------------------------------------------
(* C8 *)

\* C8: decompose_task(userInput, n) returns a sequence of length exactly n,
\* whatever the decomposition worker call delivered.
C8_DecomposeLength ==
    pc = "dispatching" => Len(subtasks) = num_agents

---------------------------------------------------------------------------
(* C9 *)

\* The worker returned a syntactically valid list of exactly n strings.
ValidList(settlement, n) ==
    /\ IsFulfilled(settlement)
    /\ settlement.value.kind = "array"
    /\ Len(settlement.value.items) = n

\* The fallback prompts, as a function of the user input and n alone.
ExpectedFallback(input, n) ==
    LET framings == << "Research comprehensive information about: ",
                       "Analyze and provide insights about: ",
                       "Find alternative perspectives on: ",
                       "Verify and cross-check facts about: " >>
    IN [k \in 1..(IF n < 4 THEN n ELSE 4) |-> framings[k] \o input]

\* C9: after decomposition, if the worker returned a valid list of exactly N
\* strings, the subtasks are that list and slot i's worker is handed its
\* element i; otherwise the subtasks, and the prompts handed to the workers,
\* are the fallback list determined by (userInput, N).
C9_VerbatimOrFallback ==
    pc = "dispatching" =>
        IF ValidList(questionResponse, num_agents)
            THEN /\ subtasks = questionResponse.value.items
                 /\ \A i \in Slots : agentPrompt[i] = questionResponse.value.items[i + 1]
            ELSE /\ subtasks = ExpectedFallback(userInput, num_agents)
                 /\ \A i \in Launched :
                       agentPrompt[i] = ExpectedFallback(userInput, num_agents)[i + 1]

\* C9 witness: a valid list of N >= 2 strings was returned and dispatched.
C9_Witness ==
    /\ pc = "dispatching"
    /\ num_agents >= 2
    /\ ValidList(questionResponse, num_agents)
    /\ subtasks = questionResponse.value.items
    /\ Launched = Slots

---------------------------------------------------------------------------
(* C10 *)

\* C10: when the outcome sequence holds no success outcome, orchestrate has
\* returned (aggregate_results made no worker call) and its promise is
\* fulfilled with the fixed message.
C10_AllFailed ==
    (Aggregated /\ \A k \in 1..Len(agentResults) : agentResults[k].status # "success")
    => /\ Returned
       /\ result = Fulfilled("All agents failed to provide results. Please try again.")
       /\ synthesisPrompt = NoPrompt
       /\ IsPending(synthesisResponse)

\* C10 witness: N = 2, both worker calls failed, orchestrate returned.
C10_Witness ==
    /\ Returned
    /\ num_agents = 2
    /\ Len(agentResults) = 2
    /\ agentResults[1].status = "error"
    /\ agentResults[2].status = "error"

---------------------------------------------------------------------------
(* C11 *)

\* The positions of the outcome sequence that hold a success.
Successes == {k \in 1..Len(agentResults) : agentResults[k].status = "success"}

\* C11: when exactly one outcome handed to aggregate_results is a success,
\* orchestrate has returned that outcome's response unchanged as soon as the
\* outcomes were aggregated, and no synthesis worker call was made: none is
\* counted, no synthesis prompt was built and no synthesis settlement exists.
C11_SingleSuccessIdentity ==
    (Aggregated /\ Cardinality(Successes) = 1) =>
        /\ Returned
        /\ \A k \in Successes : result = Fulfilled(agentResults[k].response)
        /\ workerCalls.synthesis = 0
        /\ synthesisPrompt = NoPrompt
        /\ IsPending(synthesisResponse)

\* One success among an error outcome and a timeout outcome, result returned.
C11_Witness ==
    /\ Returned
    /\ Cardinality(Successes) = 1
    /\ \E k \in 1..Len(agentResults) : agentResults[k].status = "error"
    /\ \E k \in 1..Len(agentResults) : agentResults[k].status = "timeout"

---------------------------------------------------------------------------
(* C12 *)

\* The slots whose outcome is a success, and the k-th of them in ascending
\* slot order.
SuccessSlots == {i \in Launched : HasOutcome(i) /\ OutcomeStatus(i) = "success"}
SuccessSlot(k) ==
    CHOOSE i \in SuccessSlots : Cardinality({j \in SuccessSlots : j < i}) = k - 1

Labelled(label, text) == "=== Agent " \o ToString(label) \o " Response ===\n" \o text

\* The blocks with one empty line between two neighbours.
RECURSIVE BlankLineSeparated(_)
BlankLineSeparated(blocks) ==
    IF Len(blocks) = 0 THEN ""
    ELSE IF Len(blocks) = 1 THEN blocks[1]
    ELSE blocks[1] \o "\n\n" \o BlankLineSeparated(Tail(blocks))

\* The successful responses in ascending slot order, each under its label;
\* the label is the rank among the successful responses or the slot's ordinal
\* (the statement leaves k open).
ConcatenationByRank ==
    BlankLineSeparated([k \in 1..Cardinality(SuccessSlots) |->
        Labelled(k, racePromise[SuccessSlot(k)].value.response)])
ConcatenationByOrdinal ==
    BlankLineSeparated([k \in 1..Cardinality(SuccessSlots) |->
        Labelled(SuccessSlot(k) + 1, racePromise[SuccessSlot(k)].value.response)])

\* C12: once the synthesis worker call (made for two or more successes) has
\* rejected, orchestrate has returned, not raised, and the FinalResult is the
\* labelled successful responses in ascending slot order with a blank line
\* between two of them.
C12_SynthesisFailureConcatenates ==
    (Aggregated /\ IsRejected(synthesisResponse)) =>
        /\ Returned
        /\ IsFulfilled(result)
        /\ result.value \in {ConcatenationByRank, ConcatenationByOrdinal}

---------------------------------------------------------------------------
(* C13 *)

\* C13: when two or more outcomes handed to aggregate_results are successes,
\* exactly one synthesis worker call is made (one is counted from the
\* aggregation on, with a prompt, and orchestrate waits for it), and once that
\* call has resolved orchestrate has returned exactly the text it resolved with.
C13_SynthesisOnceVerbatim ==
    (Aggregated /\ Cardinality(Successes) >= 2) =>
        /\ workerCalls.synthesis = 1
        /\ synthesisPrompt # NoPrompt
        /\ IsPending(synthesisResponse) => ~Returned
        /\ IsFulfilled(synthesisResponse) =>
              Returned /\ result = Fulfilled(synthesisResponse.value)

\* Two or more successes beside another outcome, the synthesis call resolved.
C13_Witness ==
    /\ Returned
    /\ Cardinality(Successes) >= 2
    /\ Cardinality(Successes) < Len(agentResults)
    /\ IsFulfilled(synthesisResponse)
    /\ synthesisResponse.value \in SynthesisTexts

---------------------------------------------------------------------------
(* C14 *)

\* The responses of the success outcomes in ascending slot order, and the
\* diagnostic responses of the error and timeout outcomes.
SuccessTexts ==
    [k \in 1..Cardinality(SuccessSlots) |-> racePromise[SuccessSlot(k)].value.response]
Diagnostics ==
    {racePromise[i].value.response : i \in {j \in Launched : HasOutcome(j)} \ SuccessSlots}

\* C14: from the aggregation on, the synthesis prompt (if any) is built from
\* the responses of the success outcomes and from nothing else, and the
\* FinalResult is the fixed message (no success), the one successful response,
\* the synthesis text or the concatenation of the successful responses; no
\* diagnostic response of an error or timeout outcome is among the texts used.
C14_SuccessResponsesOnly ==
    Aggregated =>
        /\ Range(SuccessTexts) \cap Diagnostics = {}
        /\ synthesisPrompt =
              (IF Len(SuccessTexts) >= 2 THEN SynthesisPrompt(SuccessTexts) ELSE NoPrompt)
        /\ Returned =>
              /\ IsFulfilled(result)
              /\ result.value \notin Diagnostics
              /\ result.value \in
                    IF Len(SuccessTexts) = 0 THEN {AllFailedMessage}
                    ELSE IF Len(SuccessTexts) = 1 THEN {SuccessTexts[1]}
                    ELSE SynthesisTexts \cup {ConcatenatedResponses(SuccessTexts, 1)}

\* Two successes beside an error and a timeout outcome, the fallback returned.
C14_Witness ==
    /\ Returned
    /\ Len(SuccessTexts) >= 2
    /\ \E k \in 1..Len(agentResults) : agentResults[k].status = "error"
    /\ \E k \in 1..Len(agentResults) : agentResults[k].status = "timeout"
    /\ IsRejected(synthesisResponse)

---------------------------------------------------------------------------
(* C15 *)

\* The entries the reader sees, after the step, through a map it then holds.
EntriesAfter(map) == IF map.alias THEN agent_progress' ELSE map.entries

\* The maps the reader holds whose entries differ after the step.
ChangedSnapshots ==
    {k \in 1..Len(snapshots) :
        k \in 1..Len(snapshots') /\ EntriesAfter(snapshots'[k].map) # Entries(snapshots[k].map)}

\* C15: (1) a map get_progress_status returns holds the entries of the live
\* progress map, so that two calls with no step of orchestrate between them
\* return equal mappings, also when the reader has written to the first map in
\* between; (2) a step of the reader (taking, writing to or dropping a
\* snapshot) leaves the live progress map as it is; (3) writing to one map
\* the reader holds changes the entries of no other map it holds.
C15_SnapshotStep ==
    /\ Len(snapshots') > Len(snapshots) =>
          /\ snapshots'[Len(snapshots')].returned = agent_progress
          /\ EntriesAfter(snapshots'[Len(snapshots')].map) = agent_progress
    /\ \A j, k \in 1..Len(snapshots') :
          snapshots'[j].at = snapshots'[k].at =>
              snapshots'[j].returned = snapshots'[k].returned
    /\ Stamp' = Stamp => agent_progress' = agent_progress
    /\ (Stamp' = Stamp /\ Len(snapshots') = Len(snapshots)) =>
          Cardinality(ChangedSnapshots) <= 1
C15_SnapshotsAreCopies == [][C15_SnapshotStep]_vars

\* The reader holds two snapshots taken during dispatch with no status change
\* between them; it has written to the first before it took the second, and the
\* second shows the live map.
C15_Witness ==
    /\ pc = "dispatching"
    /\ Len(snapshots) = 2
    /\ snapshots[1].at = snapshots[2].at
    /\ snapshots[2].at = Stamp
    /\ Entries(snapshots[1].map) # snapshots[1].returned
    /\ Entries(snapshots[2].map) = agent_progress
    /\ snapshots[2].returned = agent_progress

---------------------------------------------------------------------------
(* C16 *)

HasSentinel == -1 \in DOMAIN agent_progress

\* C16: the sentinel slot is absent before orchestrate is entered, holds
\* INITIALIZING during decomposition and dispatch, and holds AGGREGATING from
\* the aggregation to the return and after it; it holds AGGREGATING only when
\* every launched race has settled and its outcome is in the sorted outcome
\* sequence; it never holds COMPLETED.
C16_SentinelSequence ==
    /\ pc = "idle" => ~HasSentinel
    /\ pc \in {"decomposing", "dispatching"} =>
          HasSentinel /\ agent_progress[-1] = INITIALIZING
    /\ pc \in {"aggregating", "done"} =>
          HasSentinel /\ agent_progress[-1] = AGGREGATING
    /\ (HasSentinel /\ agent_progress[-1] = AGGREGATING) =>
          /\ Len(agentResults) = Cardinality(Launched)
          /\ \A i \in Launched : HasOutcome(i) /\ agentResults[i + 1] = racePromise[i].value
    /\ HasSentinel => agent_progress[-1] \in {INITIALIZING, AGGREGATING}
    /\ HasSentinel => agent_progress[-1] # COMPLETED

\* orchestrate has returned after a synthesis call; every slot is COMPLETED
\* and the sentinel still holds AGGREGATING.
C16_Witness ==
    /\ Returned
    /\ IsFulfilled(synthesisResponse)
    /\ \A i \in Slots : i \in DOMAIN agent_progress /\ agent_progress[i] = COMPLETED
    /\ agent_progress[-1] = AGGREGATING

---------------------------------------------------------------------------
(* C17 *)

\* C17: in the step in which orchestrate returns, every slot whose outcome is
\* a success has the progress status COMPLETED.
C17_ReturnStep ==
    (pc # "done" /\ pc' = "done") =>
        \A i \in DOMAIN racePromise' :
            (IsFulfilled(racePromise'[i]) /\ racePromise'[i].value.status = "success") =>
                agent_progress'[i] = COMPLETED
C17_SuccessCompletedAtReturn == [][C17_ReturnStep]_vars

---------------------------------------------------------------------------
(* C18 *)

\* C18: with a config.yaml whose parallel_agents is below 1, no worker call
\* (decomposition, slot or synthesis) is ever made and orchestrate never
\* returns a FinalResult: the start-up fails before any run.
C18_InvalidCountIsFatal ==
    config.parallel_agents < 1 =>
        /\ workerCalls = NoCalls
        /\ ~IsFulfilled(result)

---------------------------------------------------------------------------
(* C19 *)

\* The worker call of slot i fails in this step: its taskPromise settles, and
\* not with a success.
WorkerFails(i) ==
    /\ i \in DOMAIN taskPromise
    /\ IsPending(taskPromise[i])
    /\ ~IsPending(taskPromise'[i])
    /\ ~(IsFulfilled(taskPromise'[i]) /\ taskPromise'[i].value.status = "success")

\* The outcome the failure of slot i with the given message is turned into.
ErrorOutcome(i, message) ==
    [agent_id |-> i, status |-> "error", response |-> "Error: " \o message,
     execution_time |-> 0]

\* C19: in a step in which the worker call of slot i fails with a message,
\* run_agent_parallel settles with the error outcome (status error, execution
\* time 0, response "Error: <message>"), which is slot i's outcome unless the
\* slot's timer had already decided it; slot i's progress becomes
\* "FAILED: <message>"; the promises, outcomes and statuses of every other
\* slot stay exactly as they were; and orchestrate is not rejected.
C19_FailureStep ==
    \A i \in 0..(MaxAgents - 1) :
        WorkerFails(i) =>
            /\ \E message \in ErrorMessages :
                /\ taskPromise'[i] = Fulfilled(ErrorOutcome(i, message))
                /\ agent_progress'[i] = "FAILED: " \o message
                /\ racePromise'[i] =
                      (IF IsPending(racePromise[i])
                          THEN Fulfilled(ErrorOutcome(i, message))
                          ELSE racePromise[i])
            /\ \A j \in (DOMAIN agent_progress) \ {i, -1} :
                  agent_progress'[j] = agent_progress[j]
            /\ \A j \in Launched \ {i} :
                  /\ racePromise'[j] = racePromise[j]
                  /\ taskPromise'[j] = taskPromise[j]
                  /\ timeoutPromise'[j] = timeoutPromise[j]
            /\ agent_results' = agent_results
            /\ pc' # "rejected"
            /\ ~IsRejected(result')
C19_WorkerFailureIsLocal == [][C19_FailureStep]_vars

\* Slot 0 failed and holds the error outcome, slot 1 succeeded after it, and
\* orchestrate returned slot 1's response.
C19_Witness ==
    /\ Returned
    /\ num_agents = 2
    /\ Len(agentResults) = 2
    /\ agentResults[1] \in {ErrorOutcome(0, m) : m \in ErrorMessages}
    /\ \E m \in ErrorMessages : agent_progress[0] = "FAILED: " \o m
    /\ agentResults[2].status = "success"
    /\ agent_progress[1] = COMPLETED
    /\ result = Fulfilled(agentResults[2].response)

---------------------------------------------------------------------------
(* C20 *)

\* C20: the phases follow one another. Until the decomposition call has
\* settled no slot worker has been called, no timer armed and no race made;
\* slot workers are called only after the one decomposition call; and the
\* sentinel holds AGGREGATING, a synthesis prompt exists or a synthesis call
\* is counted only when every race that was launched has settled.
C20_PhasesSequential ==
    /\ pc \in {"idle", "decomposing"} =>
          /\ workerCalls.agent = 0
          /\ DOMAIN taskPromise = {}
          /\ DOMAIN timeoutPromise = {}
          /\ Launched = {}
          /\ workerCalls.synthesis = 0
    /\ workerCalls.agent > 0 =>
          /\ workerCalls.question = 1
          /\ workerCalls.agent = Len(subtasks)
          /\ DOMAIN taskPromise = Launched
          /\ DOMAIN timeoutPromise = Launched
          /\ Cardinality(Launched) = Len(subtasks)
    /\ (\/ HasSentinel /\ agent_progress[-1] = AGGREGATING
        \/ workerCalls.synthesis > 0
        \/ synthesisPrompt # NoPrompt
        \/ Aggregated) =>
          /\ workerCalls.agent > 0
          /\ \A i \in Launched : ~IsPending(racePromise[i])

\* The synthesis call is in flight after all of three races have settled, one
\* of them by its timer while that slot's worker is still running.
C20_Witness ==
    /\ pc = "aggregating"
    /\ workerCalls = [question |-> 1, agent |-> 3, synthesis |-> 1]
    /\ \A i \in Launched : HasOutcome(i)
    /\ \E i \in Launched : OutcomeStatus(i) = "timeout" /\ WorkerRunning(i)

---------------------------------------------------------------------------
(* C21 *)

\* The status recorded for slot i in the map m, "absent" when there is none.
StatusOf(m, i) == IF i \in DOMAIN m THEN m[i] ELSE "absent"

\* One write of the status sequence of a slot: nothing -> QUEUED -> PROCESSING
\* -> one terminal status. The QUEUED loop and the launch run in one task, so
\* a launched slot is seen going from nothing to PROCESSING; it was QUEUED in
\* between only if it is one of the slots the loop covers.
StatusSuccessor(i, before, after) ==
    \/ after = before
    \/ before = "absent" /\ after = QUEUED /\ i \in Slots
    \/ before = "absent" /\ after = PROCESSING /\ i \in Slots
    \/ before = QUEUED /\ after = PROCESSING
    \/ before = PROCESSING /\ IsTerminal(after)

\* C21: within a run, the statuses written for a real slot follow QUEUED,
\* PROCESSING, then exactly one terminal status: no slot enters PROCESSING or
\* a terminal status without having been QUEUED, and a terminal status is
\* never replaced, neither by QUEUED or PROCESSING nor by another terminal
\* status.
C21_StatusStep ==
    pc \in {"decomposing", "dispatching", "aggregating"} =>
        \A i \in 0..(MaxAgents - 1) :
            StatusSuccessor(i, StatusOf(agent_progress, i), StatusOf(agent_progress', i))
C21_StatusSequence == [][C21_StatusStep]_vars

---------------------------------------------------------------------------
(* C22 *)

\* The blocks, each followed by terminator, and the blocks with separator
\* between two neighbours.
RECURSIVE Terminated(_, _)
Terminated(blocks, terminator) ==
    IF Len(blocks) = 0 THEN ""
    ELSE blocks[1] \o terminator \o Terminated(Tail(blocks), terminator)
RECURSIVE Joined(_, _)
Joined(blocks, separator) ==
    IF Len(blocks) = 0 THEN ""
    ELSE IF Len(blocks) = 1 THEN blocks[1]
    ELSE blocks[1] \o separator \o Joined(Tail(blocks), separator)

\* The successful responses in ascending slot order, each labelled with the
\* 1-based ordinal of its slot, laid out as this copy of _aggregate_consensus
\* lays out the synthesis input and the concatenation fallback.
OrdinalSynthesisInput ==
    Terminated([k \in 1..Cardinality(SuccessSlots) |->
                   "=== AGENT " \o ToString(SuccessSlot(k) + 1) \o " RESPONSE ===\n"
                       \o racePromise[SuccessSlot(k)].value.response],
               blockTerminator)
OrdinalConcatenation ==
    Joined([k \in 1..Cardinality(SuccessSlots) |->
               Labelled(SuccessSlot(k) + 1, racePromise[SuccessSlot(k)].value.response)],
           joinSeparator)

\* C22: when two or more outcomes are successes, every successful response is
\* labelled k = slot id + 1, in the synthesis prompt and, once the synthesis
\* call has rejected, in the concatenation orchestrate returns; the label of a
\* slot does not depend on the outcomes of the slots below it.
C22_LabelIsSlotOrdinal ==
    (Aggregated /\ Cardinality(SuccessSlots) >= 2) =>
        /\ synthesisPrompt.agent_responses = OrdinalSynthesisInput
        /\ IsRejected(synthesisResponse) =>
              IsFulfilled(result) /\ result.value = OrdinalConcatenation

---------------------------------------------------------------------------
(* Runs with a clock: the timers come due task_timeout seconds after the    *)
(* launch. subtasks.map launches every slot in one task, so all slots are   *)
(* launched, and all timers armed, at the same instant: clock.before is the *)
(* time that passed before it and clock.since the time that passed since.   *)

\* The clock runs for MaxClock seconds.
MaxClock == 2
TimedAgentCounts == {1, 2}
MillisPerSecond == 1000
TickSteps == {MillisPerSecond \div 2, MillisPerSecond}

\* The variables of the orchestrator and of the call in flight.
program == <<num_agents, task_timeout, pc, userInput, agent_progress, agent_results,
             questionResponse, subtasks, agentPrompt, taskPromise, timeoutPromise,
             racePromise, agentResults, synthesisPrompt, synthesisResponse, result,
             workerCalls>>

\* Variant: the delay is given in seconds, setTimeout(.., this.task_timeout).
timerDelay_Unscaled(timeout) == timeout

\* setTimeout(.., this.task_timeout * 1000)
timerDelay(timeout) == timeout * MillisPerSecond

\* The event loop runs a timer callback once its delay has passed, never before.
TimerDue(i) ==
    /\ i \in DOMAIN timeoutPromise
    /\ clock.since >= timerDelay(task_timeout)

Launching == pc \in {"idle", "decomposing"}

\* Time passes.
Tick(d) ==
    /\ clock.before + clock.since + d <= MaxClock * MillisPerSecond
    /\ clock' = IF Launching THEN [clock EXCEPT !.before = @ + d]
                             ELSE [clock EXCEPT !.since = @ + d]
    /\ UNCHANGED <<program, build, config, snapshots, http, stale, cli>>

TimedInit == Init /\ num_agents \in TimedAgentCounts

TimedNext ==
    \/ \E input \in UserInputs : Orchestrate(input)
    \/ \E settlement \in QuestionSettlements : QuestionSettles(settlement)
    \/ \E i \in 0..(MaxAgents - 1) : \E response \in AgentTexts(i) :
          \E executionTime \in ElapsedTimes : WorkerResolves(i, response, executionTime)
    \/ \E i \in 0..(MaxAgents - 1) : \E message \in ErrorMessages : WorkerRejects(i, message)
    \/ \E i \in 0..(MaxAgents - 1) : TimerDue(i) /\ TimerFires(i)
    \/ \E settlement \in SynthesisSettlements : SynthesisSettles(settlement)
    \/ \E d \in TickSteps : Tick(d)

TimedSpec == TimedInit /\ [][TimedNext]_vars

---------------------------------------------------------------------------
(* C23 *)

\* The timer of slot i fires in this step.
TimerStep(i) ==
    /\ i \in DOMAIN timeoutPromise
    /\ IsPending(timeoutPromise[i])
    /\ IsFulfilled(timeoutPromise'[i])

\* C23: every slot has its own timer, armed at the launch of its own task. The
\* timer of slot i fires, and slot i holds a timeout outcome, only when at
\* least task_timeout seconds have passed since the worker of slot i was
\* started; the firing leaves the progress status, the promises and the
\* outcome of every other slot as they were.
C23_TimerStep ==
    \A i \in 0..(MaxAgents - 1) :
        /\ TimerStep(i) =>
              /\ clock.since >= task_timeout * MillisPerSecond
              /\ agent_progress'[i] = FAILED("Timeout")
              /\ \A j \in Slots \ {i} :
                    /\ StatusOf(agent_progress', j) = StatusOf(agent_progress, j)
                    /\ j \in Launched =>
                          /\ racePromise'[j] = racePromise[j]
                          /\ taskPromise'[j] = taskPromise[j]
                          /\ timeoutPromise'[j] = timeoutPromise[j]
        /\ (/\ i \in DOMAIN racePromise'
            /\ IsFulfilled(racePromise'[i])
            /\ racePromise'[i].value.status = "timeout")
           => clock'.since >= task_timeout * MillisPerSecond
C23_TimerPerSlot == [][C23_TimerStep]_vars

\* The timer of slot 0 has fired and given slot 0 its timeout outcome while
\* the worker of slot 1 is still running and its timer has not fired.
C23_Witness ==
    /\ HasOutcome(0) /\ OutcomeStatus(0) = "timeout"
    /\ agent_progress[0] = FAILED("Timeout")
    /\ WorkerRunning(1)
    /\ IsPending(timeoutPromise[1])
    /\ agent_progress[1] = PROCESSING
    /\ clock.since >= task_timeout * MillisPerSecond

---------------------------------------------------------------------------
(* C24 *)

\* C24: a run makes exactly one decomposition worker call. When that call
\* rejected or its result was not accepted, decompose_task has returned the
\* fallback prompts without a further worker call and without failing: the
\* slots are launched with them, the only worker calls made since are the
\* slots' own, and orchestrate has not been rejected.
C24_OneDecompositionCall ==
    /\ workerCalls.question = 1
    /\ (pc # "decomposing" /\ ~QuestionsAccepted(questionResponse, num_agents)) =>
          /\ subtasks = Slice(fallbackQuestions(userInput), num_agents)
          /\ Launched = 0..(Len(subtasks) - 1)
          /\ workerCalls.agent = Len(subtasks)
          /\ workerCalls.synthesis = 0
          /\ pc = "dispatching"
          /\ IsPending(result)

\* The decomposition worker call rejected and the slots were launched.
C24_Witness ==
    /\ IsRejected(questionResponse)
    /\ pc = "dispatching"
    /\ Launched # {}
    /\ workerCalls.question = 1

---------------------------------------------------------------------------
(* C25 *)

\* The slots whose worker call or timer settles in this step.
SettlingSlots ==
    {i \in Launched : taskPromise'[i] # taskPromise[i] \/ timeoutPromise'[i] # timeoutPromise[i]}

\* C25: the status updates of the slot tasks and of the timers do not
\* interfere. Once the slots are launched, every step is the callback of one
\* slot; it writes the whole new status of that slot, leaves the entry of
\* every other slot as it was and removes no entry, so no update of another
\* slot is lost or corrupted.
C25_UpdateStep ==
    pc \in {"dispatching", "aggregating"} =>
        /\ Cardinality(SettlingSlots) <= 1
        /\ DOMAIN agent_progress \subseteq DOMAIN agent_progress'
        /\ \A i \in SettlingSlots :
              /\ IsTerminal(agent_progress'[i])
              /\ \A j \in (DOMAIN agent_progress) \ {i, -1} :
                    agent_progress'[j] = agent_progress[j]
        /\ SettlingSlots = {} => \A j \in (DOMAIN agent_progress) \ {-1} :
                    agent_progress'[j] = agent_progress[j]
C25_UpdatesDoNotInterfere == [][C25_UpdateStep]_vars

\* A worker resolved, a worker rejected and a timer fired, for three different
\* slots, and the three statuses stand side by side while a fourth slot runs.
C25_Witness ==
    /\ pc = "dispatching"
    /\ \E i, j, k, l \in Launched :
          /\ agent_progress[i] = COMPLETED
          /\ agent_progress[j] = FAILED("Timeout")
          /\ \E m \in ErrorMessages : agent_progress[k] = FAILED(m)
          /\ agent_progress[l] = PROCESSING

---------------------------------------------------------------------------
(* The HTTP front end: EndpointHandler.handleRequest serves one request     *)
(* with the src copy of TaskOrchestrator. The handler is inside its try     *)
(* block while http.phase is "handling"; pc tells whether it still waits    *)
(* for the body (idle) or for orchestrate.                                  *)

MaxMessages == 2
HandlerAgentCounts == {1, 2}
CompletionsPath == "/v1/chat/completions"
Methods == {"OPTIONS", "GET", "POST"}
Urls == {CompletionsPath, "/"}
Roles == {"user", "assistant"}
Contents == {"", "alpha", "beta"}
Messages == [role : Roles, content : Contents]
MessageLists == UNION {[1..n -> Messages] : n \in 0..MaxMessages}

\* The bodies a request may carry: text that is not JSON, a JSON object
\* without messages, a JSON object with a list of messages.
Bodies ==
    {[json |-> FALSE, hasMessages |-> FALSE, messages |-> << >>],
     [json |-> TRUE, hasMessages |-> FALSE, messages |-> << >>]}
    \cup {[json |-> TRUE, hasMessages |-> TRUE, messages |-> list] : list \in MessageLists}
Requests == [method : Methods, url : Urls, body : Bodies]

\* JSON.parse(body)
parseBody(body) == [threw |-> ~body.json, value |-> body]

Null == [isNull |-> TRUE, value |-> ""]
NotNull(v) == [isNull |-> FALSE, value |-> v]

\* Variant: the first user message is taken, .filter(..).shift().
extractUserInput_First(request) ==
    IF ~request.hasMessages \/ Len(request.messages) = 0 THEN Null
    ELSE LET users == SelectSeq(request.messages, LAMBDA m : m.role = "user") IN
         IF Len(users) = 0 THEN Null ELSE NotNull(users[1].content)

\* request.messages.filter(m => m.role === 'user').pop()?.content ?? null
extractUserInput(request) ==
    IF ~request.hasMessages \/ Len(request.messages) = 0 THEN Null
    ELSE LET users == SelectSeq(request.messages, LAMBDA m : m.role = "user") IN
         IF Len(users) = 0 THEN Null ELSE NotNull(users[Len(users)].content)

\* !userInput
Falsy(input) == input.isNull \/ input.value = ""

\* The envelope around the FinalResult; its id and creation time are left out.
formatOpenAIResponse(content) ==
    [object |-> "chat.completion",
     choices |-> << [index |-> 0,
                     message |-> [role |-> "assistant", content |-> content],
                     finish_reason |-> "stop"] >>]

NoPayload == [object |-> "none"]
sendJSON(statusCode, payload) == [status |-> statusCode, payload |-> payload]
sendError(statusCode, message) ==
    sendJSON(statusCode, [object |-> "error", message |-> message,
                          type |-> "invalid_request_error"])

\* res.writeHead(..); res.end(..) with the response r.
Answered(r) == [http EXCEPT !.phase = "answered", !.responses = Append(@, r)]

\* handleRequest up to its first suspension.
ReceiveRequest(req) ==
    /\ http.phase = "listening"
    /\ http' = IF req.method = "OPTIONS"
                  THEN [Answered(sendJSON(204, NoPayload)) EXCEPT !.request = req]
               ELSE IF req.url = CompletionsPath /\ req.method = "POST"
                  THEN [http EXCEPT !.phase = "handling", !.request = req]
               ELSE [Answered(sendError(404, "Not Found. Please POST to /v1/chat/completions"))
                        EXCEPT !.request = req]
    /\ UNCHANGED <<program, build, config, snapshots, clock, stale, cli>>

\* The request stream fails: getRequestBody rejects and the catch block answers.
BodyFails(message) ==
    /\ http.phase = "handling"
    /\ pc = "idle"
    /\ http' = Answered(sendError(500, "Internal Server Error: " \o message))
    /\ UNCHANGED <<program, build, config, snapshots, clock, stale, cli>>

\* The body has arrived and is refused: JSON.parse throws, or there is no
\* user input in it.
BodyRefused ==
    /\ http.phase = "handling"
    /\ pc = "idle"
    /\ \E parsed \in {parseBody(http.request.body)} :
        IF parsed.threw
            THEN http' = Answered(sendError(500, "Internal Server Error: Unexpected token"))
            ELSE /\ Falsy(extractUserInput(parsed.value))
                 /\ http' = Answered(sendError(400, "No valid user message found in request body."))
    /\ UNCHANGED <<program, build, config, snapshots, clock, stale, cli>>

\* The body has arrived and holds a user input: orchestrate is called with it.
BodyAccepted ==
    /\ http.phase = "handling"
    /\ \E parsed \in {parseBody(http.request.body)} :
        /\ ~parsed.threw
        /\ ~Falsy(extractUserInput(parsed.value))
        /\ Orchestrate(extractUserInput(parsed.value).value)

\* orchestrate has settled: the handler answers with the envelope, or from
\* its catch block.
Respond ==
    /\ http.phase = "handling"
    /\ pc \in {"done", "rejected"}
    /\ http' = IF IsFulfilled(result)
                  THEN Answered(sendJSON(200, formatOpenAIResponse(result.value)))
                  ELSE Answered(sendError(500, "Internal Server Error: " \o result.reason))
    /\ UNCHANGED <<program, build, config, snapshots, clock, stale, cli>>

HandlerInit ==
    /\ num_agents \in HandlerAgentCounts
    /\ task_timeout \in 1..MaxTimeout
    /\ config = ConfigFile(num_agents, task_timeout)
    /\ build = "src"
    /\ snapshots = << >>
    /\ Quiet
    /\ workerCalls = NoCalls
    /\ pc = "idle"
    /\ userInput = ""
    /\ agent_progress = EmptyMap
    /\ agent_results = EmptyMap
    /\ questionResponse = Pending
    /\ subtasks = << >>
    /\ agentPrompt = << >>
    /\ taskPromise = << >>
    /\ timeoutPromise = << >>
    /\ racePromise = << >>
    /\ agentResults = << >>
    /\ synthesisPrompt = NoPrompt
    /\ synthesisResponse = Pending
    /\ result = Pending

HandlerNext ==
    \/ \E req \in Requests : ReceiveRequest(req)
    \/ \E message \in ErrorMessages : BodyFails(message)
    \/ BodyRefused
    \/ BodyAccepted
    \/ \E settlement \in QuestionSettlements : QuestionSettles(settlement)
    \/ \E i \in 0..(MaxAgents - 1) : \E response \in AgentTexts(i) :
          \E executionTime \in ElapsedTimes : WorkerResolves(i, response, executionTime)
    \/ \E i \in 0..(MaxAgents - 1) : \E message \in ErrorMessages : WorkerRejects(i, message)
    \/ \E i \in 0..(MaxAgents - 1) : TimerFires(i)
    \/ \E settlement \in SynthesisSettlements : SynthesisSettles(settlement)
    \/ Respond

HandlerSpec == HandlerInit /\ [][HandlerNext]_vars

---------------------------------------------------------------------------
(* C26 *)

\* The request is a POST to /v1/chat/completions.
IsCompletionPost(req) == req.method = "POST" /\ req.url = CompletionsPath

\* The positions of the user-role messages of the request's message list.
UserPositions(req) ==
    {k \in 1..Len(req.body.messages) : req.body.messages[k].role = "user"}
LastUserContent(req) ==
    req.body.messages[CHOOSE k \in UserPositions(req) : \A l \in UserPositions(req) : l <= k].content

\* The message list contains a user-role message with non-empty content.
HasUserContent(req) ==
    \E k \in UserPositions(req) : req.body.messages[k].content # ""

\* The body parses and the last user-role message has non-empty content.
LastUserHasContent(req) ==
    /\ req.body.json
    /\ UserPositions(req) # {}
    /\ LastUserContent(req) # ""

RunStarted == pc # "idle"
AnsweredWith(status) ==
    /\ http.phase = "answered"
    /\ Len(http.responses) = 1
    /\ http.responses[1].status = status
AnsweredWithResult ==
    /\ AnsweredWith(200)
    /\ IsFulfilled(result)
    /\ http.responses[1].payload = formatOpenAIResponse(result.value)

---------------------------------------------------------------------------
(* Successive runs on one orchestrator: the front end calls orchestrate     *)
(* again once the previous call has returned. The timers and worker calls   *)
(* the previous run left pending are still there; stale holds them as pairs *)
(* <<run, slot>>.                                                           *)

MaxRuns == 2
RunAgentCounts == {1, 2}

PendingTimers == {i \in DOMAIN timeoutPromise : IsPending(timeoutPromise[i])}
PendingWorkers == {i \in DOMAIN taskPromise : IsPending(taskPromise[i])}

\* orchestrate(input) is called again after the previous call returned: the
\* maps are cleared, the sentinel is set and the new call has its own
\* subtasks, promises and outcomes. Nothing cancels what the previous call
\* left pending.
OrchestrateAgain(input) ==
    /\ pc = "done"
    /\ stale.run < MaxRuns
    /\ stale' = [run |-> stale.run + 1,
                 timers |-> stale.timers \cup {<<stale.run, i>> : i \in PendingTimers},
                 workers |-> stale.workers \cup {<<stale.run, i>> : i \in PendingWorkers}]
    /\ userInput' = input
    /\ agent_progress' = update_agent_progress(EmptyMap, -1, INITIALIZING)
    /\ agent_results' = EmptyMap
    /\ pc' = "decomposing"
    /\ workerCalls' = [NoCalls EXCEPT !.question = 1]
    /\ subtasks' = << >>
    /\ agentPrompt' = << >>
    /\ taskPromise' = << >>
    /\ timeoutPromise' = << >>
    /\ racePromise' = << >>
    /\ agentResults' = << >>
    /\ synthesisPrompt' = NoPrompt
    /\ synthesisResponse' = Pending
    /\ result' = Pending
    /\ UNCHANGED <<num_agents, task_timeout, questionResponse, build, config, snapshots,
                   clock, http, cli>>

\* What no callback of an earlier run touches: the call in flight.
callInFlight == <<num_agents, task_timeout, pc, userInput, questionResponse, subtasks,
                  agentPrompt, taskPromise, timeoutPromise, racePromise, agentResults,
                  synthesisPrompt, synthesisResponse, result, workerCalls>>

\* The timer run r armed for slot i fires: its callback records FAILED: Timeout
\* in the map of the orchestrator and resolves a promise nobody waits for.
StaleTimerFires(r, i) ==
    /\ <<r, i>> \in stale.timers
    /\ stale' = [stale EXCEPT !.timers = @ \ {<<r, i>>}]
    /\ agent_progress' = update_agent_progress(agent_progress, i, FAILED("Timeout"))
    /\ UNCHANGED <<callInFlight, agent_results, build, config, snapshots, clock, http, cli>>

\* The worker call run r started for slot i resolves: run_agent_parallel
\* records COMPLETED and the response in the maps of the orchestrator.
StaleWorkerResolves(r, i, response) ==
    /\ <<r, i>> \in stale.workers
    /\ stale' = [stale EXCEPT !.workers = @ \ {<<r, i>>}]
    /\ agent_progress' = update_agent_progress(agent_progress, i, COMPLETED)
    /\ agent_results' = MapSet(agent_results, i, response)
    /\ UNCHANGED <<callInFlight, build, config, snapshots, clock, http, cli>>

\* The worker call run r started for slot i rejects: the catch block of
\* run_agent_parallel records FAILED: <message>.
StaleWorkerRejects(r, i, message) ==
    /\ <<r, i>> \in stale.workers
    /\ stale' = [stale EXCEPT !.workers = @ \ {<<r, i>>}]
    /\ agent_progress' = update_agent_progress(agent_progress, i, FAILED(message))
    /\ UNCHANGED <<callInFlight, agent_results, build, config, snapshots, clock, http, cli>>

TwoRunInit == Init /\ num_agents \in RunAgentCounts

TwoRunNext ==
    \/ \E input \in UserInputs : Orchestrate(input)
    \/ \E input \in UserInputs : OrchestrateAgain(input)
    \/ \E settlement \in QuestionSettlements : QuestionSettles(settlement)
    \/ \E i \in 0..(MaxAgents - 1) : \E response \in AgentTexts(i) :
          \E executionTime \in ElapsedTimes : WorkerResolves(i, response, executionTime)
    \/ \E i \in 0..(MaxAgents - 1) : \E message \in ErrorMessages : WorkerRejects(i, message)
    \/ \E i \in 0..(MaxAgents - 1) : TimerFires(i)
    \/ \E settlement \in SynthesisSettlements : SynthesisSettles(settlement)
    \/ \E r \in 1..MaxRuns : \E i \in 0..(MaxAgents - 1) : StaleTimerFires(r, i)
    \/ \E r \in 1..MaxRuns : \E i \in 0..(MaxAgents - 1) : \E response \in AgentTexts(i) :
          StaleWorkerResolves(r, i, response)
    \/ \E r \in 1..MaxRuns : \E i \in 0..(MaxAgents - 1) : \E message \in ErrorMessages :
          StaleWorkerRejects(r, i, message)

TwoRunSpec == TwoRunInit /\ [][TwoRunNext]_vars

---------------------------------------------------------------------------
(* C27 *)

\* A callback left pending by an earlier run runs in this step.
StaleStep ==
    /\ stale'.run = stale.run
    /\ stale'.timers # stale.timers \/ stale'.workers # stale.workers

\* C27: after the reset at the start of a run, the progress map is written by
\* that run only: no timer armed and no worker call started by an earlier run
\* changes the map.
C27_StaleStep == StaleStep => agent_progress' = agent_progress
C27_RunOwnsProgressMap == [][C27_StaleStep]_vars

---------------------------------------------------------------------------
(* Overlapping calls: while this call of orchestrate is in flight, another  *)
(* call runs on the same orchestrator (EndpointHandler starts one for every *)
(* request and does not wait for the previous one). The subtasks, promises  *)
(* and outcomes of a call are locals of that call; what the other call      *)
(* shares with this one are the fields agent_progress and agent_results,    *)
(* so the other call is modelled by what it writes to them, in any order.   *)

OverlapAgentCounts == {2}
OtherTexts == {"answer for another call"}

\* The other call enters orchestrate: both maps are cleared, the sentinel set.
OtherOrchestrate ==
    /\ pc # "idle"
    /\ agent_progress' = update_agent_progress(EmptyMap, -1, INITIALIZING)
    /\ agent_results' = EmptyMap
    /\ UNCHANGED <<callInFlight, environment>>

\* The other call queues and launches its slots.
OtherDispatches ==
    /\ pc # "idle"
    /\ agent_progress' = ProgressAtDispatch(agent_progress, Slots)
    /\ UNCHANGED <<callInFlight, agent_results, environment>>

\* A worker call of the other call resolves for slot i.
OtherWorkerResolves(i, response) ==
    /\ pc # "idle"
    /\ i \in Slots
    /\ agent_progress' = update_agent_progress(agent_progress, i, COMPLETED)
    /\ agent_results' = MapSet(agent_results, i, response)
    /\ UNCHANGED <<callInFlight, environment>>

\* A worker call of the other call rejects, or one of its timers fires.
OtherSlotFails(i, reason) ==
    /\ pc # "idle"
    /\ i \in Slots
    /\ agent_progress' = update_agent_progress(agent_progress, i, FAILED(reason))
    /\ UNCHANGED <<callInFlight, agent_results, environment>>

\* The other call hands its outcomes to aggregate_results.
OtherAggregates ==
    /\ pc # "idle"
    /\ agent_progress' = update_agent_progress(agent_progress, -1, AGGREGATING)
    /\ UNCHANGED <<callInFlight, agent_results, environment>>

OverlapInit == Init /\ num_agents \in OverlapAgentCounts

OverlapNext ==
    \/ \E input \in UserInputs : Orchestrate(input)
    \/ \E settlement \in QuestionSettlements : QuestionSettles(settlement)
    \/ \E i \in 0..(MaxAgents - 1) : \E response \in AgentTexts(i) :
          \E executionTime \in ElapsedTimes : WorkerResolves(i, response, executionTime)
    \/ \E i \in 0..(MaxAgents - 1) : \E message \in ErrorMessages : WorkerRejects(i, message)
    \/ \E i \in 0..(MaxAgents - 1) : TimerFires(i)
    \/ \E settlement \in SynthesisSettlements : SynthesisSettles(settlement)
    \/ OtherOrchestrate
    \/ OtherDispatches
    \/ \E i \in 0..(MaxAgents - 1) : \E response \in OtherTexts : OtherWorkerResolves(i, response)
    \/ \E i \in 0..(MaxAgents - 1) : \E reason \in ErrorMessages \cup {"Timeout"} :
          OtherSlotFails(i, reason)
    \/ OtherAggregates

OverlapSpec == OverlapInit /\ [][OverlapNext]_vars

---------------------------------------------------------------------------
(* C28 *)

\* The responses of this call's successful slots, in ascending slot order, as
\* its own worker calls delivered them.
OwnResponses ==
    [k \in 1..Cardinality(SuccessSlots) |-> taskPromise[SuccessSlot(k)].value.response]

\* The FinalResult as a function of this call's outcomes and of the settlement
\* of its own synthesis call.
OwnFinalResult ==
    IF SuccessSlots = {} THEN AllFailedMessage
    ELSE IF Cardinality(SuccessSlots) = 1 THEN OwnResponses[1]
    ELSE IF IsFulfilled(synthesisResponse) THEN synthesisResponse.value
    ELSE Joined([k \in 1..Len(OwnResponses) |-> Labelled(k, OwnResponses[k])], joinSeparator)

\* C28: while another call of orchestrate runs on the same orchestrator, the
\* outcome sequence and the FinalResult of this call are determined by its own
\* user input and its own worker results: every outcome is the settlement of
\* this call's own worker or timer for that slot, the synthesis input is made
\* of its own workers' responses, and the FinalResult is the function of them
\* it would be without the other call.
C28_OverlapIndependent ==
    /\ \A i \in Launched :
          /\ agentPrompt[i] = subtasks[i + 1]
          /\ HasOutcome(i) =>
                \/ WorkerSettled(i) /\ racePromise[i] = taskPromise[i]
                \/ TimerFired(i) /\ racePromise[i] = timeoutPromise[i]
    /\ Aggregated =>
          /\ \A i \in Launched : agentResults[i + 1] = racePromise[i].value
          /\ Cardinality(SuccessSlots) >= 2 =>
                synthesisPrompt.agent_responses =
                    Terminated([k \in 1..Len(OwnResponses) |->
                                   "=== AGENT " \o ToString(k) \o " RESPONSE ===\n"
                                       \o OwnResponses[k]],
                               blockTerminator)
    /\ Returned => result = Fulfilled(OwnFinalResult)

\* This call has returned the response of its one successful slot although the
\* other call has overwritten that slot's entry of agent_results and its
\* progress status.
C28_Witness ==
    /\ Returned
    /\ \E i \in SuccessSlots :
          /\ SuccessSlots = {i}
          /\ i \in DOMAIN agent_results
          /\ agent_results[i] \in OtherTexts
          /\ i \in DOMAIN agent_progress
          /\ agent_progress[i] = FAILED("boom")
          /\ result = Fulfilled(taskPromise[i].value.response)

---------------------------------------------------------------------------
(* C29 *)

\* The statuses a real slot may hold.
IsSlotStatus(status) ==
    status \in {QUEUED, PROCESSING} \/ IsTerminal(status)

\* C29: in every reachable state the progress map is well-formed: its keys are
\* the sentinel -1 and slot ids of 0..N-1, the sentinel holds INITIALIZING or
\* AGGREGATING, and every real slot holds QUEUED, PROCESSING, COMPLETED or
\* FAILED with a reason, never one of the sentinel's two values.
C29_ProgressMapWellFormed ==
    /\ DOMAIN agent_progress \subseteq {-1} \cup 0..(num_agents - 1)
    /\ -1 \in DOMAIN agent_progress => agent_progress[-1] \in {INITIALIZING, AGGREGATING}
    /\ \A i \in (DOMAIN agent_progress) \ {-1} :
          /\ IsSlotStatus(agent_progress[i])
          /\ agent_progress[i] \notin {INITIALIZING, AGGREGATING}

---------------------------------------------------------------------------
(* C30 *)

\* While the decomposition worker call has not settled no slot is queued or
\* launched, no timer is armed and orchestrate has not returned; while the
\* synthesis worker call (made for two or more successes) has not settled,
\* orchestrate has not returned although every slot has its outcome.
WaitsForWorker ==
    /\ pc = "decomposing" =>
          /\ DOMAIN agent_progress \subseteq {-1}
          /\ Launched = {}
          /\ PendingTimers = {}
          /\ IsPending(result)
    /\ (Aggregated /\ Cardinality(Successes) >= 2 /\ IsPending(synthesisResponse)) =>
          /\ pc = "aggregating"
          /\ IsPending(result)
          /\ \A i \in Launched : HasOutcome(i)

\* C30: the per-task timeout does not cover the decomposition and synthesis
\* worker calls. orchestrate waits for each of them however much time passes:
\* no tick of the clock and no timer moves it on from either wait or makes it
\* return, so a call that never settles leaves orchestrate waiting for ever.
C30_WaitStep ==
    /\ WaitsForWorker'
    /\ (pc \in {"decomposing", "aggregating"}
        /\ (clock' # clock \/ \E i \in 0..(MaxAgents - 1) : TimerStep(i)))
       => (pc' = pc /\ result' = result)
C30_WorkerCallsNotTimed == [][C30_WaitStep]_vars

\* The decomposition took longer than task_timeout, and now orchestrate waits
\* for the synthesis call: every slot has its outcome, every timer has fired,
\* more than task_timeout has passed since the launch, nothing is returned.
C30_Witness ==
    /\ pc = "aggregating"
    /\ IsPending(synthesisResponse)
    /\ IsPending(result)
    /\ clock.before >= task_timeout * MillisPerSecond
    /\ clock.since >= task_timeout * MillisPerSecond
    /\ \A i \in Launched : HasOutcome(i) /\ TimerFired(i)

---------------------------------------------------------------------------
(* The command-line front ends. The root copy (OrchestratorCLI) handles     *)
(* every input line in an async 'line' listener, so a line is handled also  *)
(* while a task is running; the src copy (CliHandler) reads a line with     *)
(* rl.question only when the previous task is over. cli.own tells that a    *)
(* task waits for the call of orchestrate the model follows step by step,   *)
(* cli.others counts the tasks that wait for a call that overlaps it and is *)
(* modelled by its writes to the shared maps, as in OverlapSpec.            *)

MaxLines == 2
CliAgentCounts == {1}
Lines == {"quit", ""} \cup UserInputs

\* The task's call of orchestrate has been entered.
Entered == cli.own /\ cli.ownRun = stale.run /\ pc # "idle"
\* run_task has armed its timer and is about to call orchestrate, in the same task.
CallDue == cli.own /\ ~Entered
\* orchestrate has settled; the rest of run_task runs before any other task.
ContinuationDue == Entered /\ pc \in {"done", "rejected"}
Busy == CallDue \/ ContinuationDue

\* this.progressInterval = setInterval(.., 1000)
setInterval(c) ==
    [c EXCEPT !.handles = @ + 1, !.progressInterval = c.handles + 1,
              !.active = @ \cup {c.handles + 1}]

\* clearInterval(handle): a handle that was cleared before is ignored.
clearInterval(c, handle) == [c EXCEPT !.active = @ \ {handle}]

\* run_task up to the call of orchestrate (root), startProgressMonitor (src).
StartMonitor(c) ==
    IF build = "root" THEN [setInterval(c) EXCEPT !.running = TRUE] ELSE setInterval(c)

\* What run_task does once orchestrate has returned or thrown (root):
\* this.running = false; if (this.progressInterval) clearInterval(..); and
\* stopProgressMonitor (src), which also resets the field to null.
StopMonitor(c) ==
    IF build = "root"
        THEN [(IF c.progressInterval # 0 THEN clearInterval(c, c.progressInterval) ELSE c)
                 EXCEPT !.running = FALSE]
        ELSE IF c.progressInterval # 0
                 THEN [clearInterval(c, c.progressInterval) EXCEPT !.progressInterval = 0]
                 ELSE c

\* A call of orchestrate can be followed from here on.
CanFollow == pc = "idle" \/ (pc = "done" /\ stale.run < MaxRuns)

\* The task the line starts waits for the call the model follows.
OwnTask(c, line) ==
    [StartMonitor(c) EXCEPT !.lines = @ + 1, !.own = TRUE, !.input = line,
                            !.ownRun = IF pc = "idle" THEN stale.run ELSE stale.run + 1]

\* The 'line' listener of OrchestratorCLI.interactive_mode: quit closes the
\* interface and the process exits; an empty line prompts again; any other
\* line starts run_task, whether or not a task is running. The call of
\* orchestrate that overlaps a call in flight clears both maps.
LineHandler(line) ==
    /\ build = "root"
    /\ ~cli.exited
    /\ cli.lines < MaxLines
    /\ ~Busy
    /\ IF line = "quit" THEN
            /\ cli' = [cli EXCEPT !.lines = @ + 1, !.exited = TRUE, !.active = {}]
            /\ UNCHANGED <<agent_progress, agent_results>>
       ELSE IF line = "" THEN
            /\ cli' = [cli EXCEPT !.lines = @ + 1]
            /\ UNCHANGED <<agent_progress, agent_results>>
       ELSE IF ~cli.own THEN
            /\ CanFollow
            /\ cli' = OwnTask(cli, line)
            /\ UNCHANGED <<agent_progress, agent_results>>
       ELSE
            /\ cli' = [StartMonitor(cli) EXCEPT !.lines = @ + 1, !.others = @ + 1]
            /\ agent_progress' = update_agent_progress(EmptyMap, -1, INITIALIZING)
            /\ agent_results' = EmptyMap
    /\ UNCHANGED <<callInFlight, build, config, snapshots, clock, http, stale>>

\* CliHandler.start: rl.question is answered; quit leaves the loop, an empty
\* line asks again, any other line starts runTask, which the loop awaits.
QuestionAnswered(line) ==
    /\ build = "src"
    /\ ~cli.exited
    /\ cli.lines < MaxLines
    /\ ~cli.own
    /\ IF line = "quit" THEN cli' = [cli EXCEPT !.lines = @ + 1, !.exited = TRUE]
       ELSE IF line = "" THEN cli' = [cli EXCEPT !.lines = @ + 1]
       ELSE CanFollow /\ cli' = OwnTask(cli, line)
    /\ UNCHANGED <<program, build, config, snapshots, clock, http, stale>>

\* A line arrives while CliHandler awaits runTask: no question is pending and
\* nothing listens to 'line', the line is lost.
LineDropped ==
    /\ build = "src"
    /\ ~cli.exited
    /\ cli.lines < MaxLines
    /\ cli.own
    /\ ~Busy
    /\ cli' = [cli EXCEPT !.lines = @ + 1]
    /\ UNCHANGED <<program, build, config, snapshots, clock, http, stale>>

\* await this.orchestrator.orchestrate(userInput), reached in the task that
\* armed the timer.
CallOrchestrate ==
    /\ CallDue
    /\ IF pc = "idle" THEN Orchestrate(cli.input) ELSE OrchestrateAgain(cli.input)

\* The call the task waits for has settled: the timer is cleared.
TaskReturns ==
    /\ ContinuationDue
    /\ ~cli.exited
    /\ cli' = [StopMonitor(cli) EXCEPT !.own = FALSE]
    /\ UNCHANGED <<program, build, config, snapshots, clock, http, stale>>

\* An overlapping call has settled and its run_task goes on.
OtherTaskReturns ==
    /\ cli.others > 0
    /\ ~cli.exited
    /\ ~Busy
    /\ cli' = [StopMonitor(cli) EXCEPT !.others = @ - 1]
    /\ UNCHANGED <<program, build, config, snapshots, clock, http, stale>>

\* The interval timer with this handle comes due: update_display returns at
\* once when no task is running (root), else the callback reads the progress
\* map and draws it.
IntervalFires(handle) ==
    /\ handle \in cli.active
    /\ ~cli.exited
    /\ ~Busy
    /\ build = "root" => cli.running
    /\ GetProgressStatus

CliInit ==
    /\ build \in Builds
    /\ num_agents \in CliAgentCounts
    /\ task_timeout \in 1..MaxTimeout
    /\ config = ConfigFile(num_agents, task_timeout)
    /\ snapshots = << >>
    /\ Quiet
    /\ workerCalls = NoCalls
    /\ pc = "idle"
    /\ userInput = ""
    /\ agent_progress = EmptyMap
    /\ agent_results = EmptyMap
    /\ questionResponse = Pending
    /\ subtasks = << >>
    /\ agentPrompt = << >>
    /\ taskPromise = << >>
    /\ timeoutPromise = << >>
    /\ racePromise = << >>
    /\ agentResults = << >>
    /\ synthesisPrompt = NoPrompt
    /\ synthesisResponse = Pending
    /\ result = Pending

\* The steps of the call in flight and of what earlier calls left pending.
CliCallStep ==
    \/ \E settlement \in QuestionSettlements : QuestionSettles(settlement)
    \/ \E i \in 0..(MaxAgents - 1) : \E response \in AgentTexts(i) :
          \E executionTime \in ElapsedTimes : WorkerResolves(i, response, executionTime)
    \/ \E i \in 0..(MaxAgents - 1) : \E message \in ErrorMessages : WorkerRejects(i, message)
    \/ \E i \in 0..(MaxAgents - 1) : TimerFires(i)
    \/ \E r \in 1..MaxRuns : \E i \in 0..(MaxAgents - 1) : StaleTimerFires(r, i)
    \/ \E r \in 1..MaxRuns : \E i \in 0..(MaxAgents - 1) : \E response \in AgentTexts(i) :
          StaleWorkerResolves(r, i, response)
    \/ \E r \in 1..MaxRuns : \E i \in 0..(MaxAgents - 1) : \E message \in ErrorMessages :
          StaleWorkerRejects(r, i, message)

\* The writes of the calls that overlap the call in flight.
CliOtherStep ==
    \/ OtherDispatches
    \/ \E i \in 0..(MaxAgents - 1) : \E response \in OtherTexts : OtherWorkerResolves(i, response)
    \/ \E i \in 0..(MaxAgents - 1) : \E reason \in ErrorMessages \cup {"Timeout"} :
          OtherSlotFails(i, reason)
    \/ OtherAggregates

CliNext ==
    \/ \E line \in Lines : LineHandler(line)
    \/ \E line \in Lines : QuestionAnswered(line)
    \/ LineDropped
    \/ CallOrchestrate
    \/ TaskReturns
    \/ OtherTaskReturns
    \/ \E handle \in 1..MaxLines : IntervalFires(handle)
    \/ ~Busy /\ ~cli.exited /\ CliCallStep
    \/ ~Busy /\ ~cli.exited /\ cli.others > 0 /\ CliOtherStep

CliSpec == CliInit /\ [][CliNext]_vars

---------------------------------------------------------------------------
(* C31 *)

\* A task is running: a run_task waits for its call of orchestrate.
TaskRunning == cli.own \/ cli.others > 0

\* C31: in both command-line front ends at most one progress-monitor interval
\* timer is active at any time, and when no task is running (every call of
\* orchestrate has returned or failed) none is active, whatever lines arrive,
\* also while a task is running.
C31_OneProgressMonitor ==
    /\ Cardinality(cli.active) <= 1
    /\ ~TaskRunning => cli.active = {}

====
